---------------------------- MODULE Spec2Model ----------------------------
(***************************************************************************)
(* Model of jijibaba-taijyu: a two-user weight / quest / reward tracker    *)
(* whose React state is kept in step with a relational store.              *)
(*                                                                         *)
(* Conventions                                                             *)
(*  - A DateKey ("YYYY-MM-DD") is an integer day number. The code only     *)
(*    compares date keys (===, <, <=, localeCompare), and on fixed-width   *)
(*    zero-padded keys that order is the order of the day numbers.         *)
(*  - Weights are integers (kilograms, or any fixed decimal scaling).      *)
(*  - Timestamps (Date.now(), created_at) are integers counted in hours.   *)
(*  - JavaScript null / NaN / a missing isoDate are the sentinels Null,    *)
(*    NaN and NoIso below; real weights are positive, so they never clash. *)
(***************************************************************************)
EXTENDS Integers, Sequences, FiniteSets, TLC

VARIABLES
    \* React state of WeightManagementApp (page.tsx) and HomeView
    activeUser,               \* the user whose data is shown
    progressByUser,           \* user -> displayed points
    weightHistoryByUser,      \* user -> displayed weight series
    completedQuestIdsByUser,  \* user -> quests completed since the page loaded
    questHistoryByUser,       \* user -> displayed quest history
    rewardHistoryByUser,      \* user -> displayed reward history
    finalGoalWeightByUser,    \* user -> displayed final goal
    periodGoalByUser,         \* user -> displayed period goal
    displayMode,              \* HomeView: "chart" or "calendar"
    calendarWeights,          \* HomeView: the displayed month's samples
    calendarReqIdRef,         \* HomeView: number of the latest month fetch
    calendarLoading,          \* HomeView: a month fetch is shown as running
    \* the store (supabase tables)
    profiles,                 \* user -> row (points, final_goal_weight)
    weights,                  \* user -> set of rows (recorded_at, weight)
    quest_history,            \* user -> rows in insertion order
    reward_history,           \* user -> rows in insertion order
    period_goals,             \* user -> set of rows
    \* asynchronous continuations and the clock
    ops,                      \* slot -> handler suspended at an await
    now,                      \* Date.now(), in hours
    today,                    \* getLocalISODate(new Date())
    actions,                  \* user actions taken so far (bounded by MaxActions)
    \* history variable: the deltas applied to each stored balance
    ledger,
    \* the shared lists: React state of WeightManagementApp, and the store's tables
    questDefinitions,         \* displayed quests
    rewardDefinitions,        \* displayed rewards
    wishes,                   \* displayed wishes
    quests,                   \* table quests, rows in creation order
    rewards,                  \* table rewards
    wishesTable,              \* table wishes
    userColumn,               \* the three tables have the column "user" (the legacy schema)
    \* the views
    activeTab,                \* "home", "quest", "reward" or "dream"
    isEditorOpen,             \* QuestView / RewardView: the editor dialog of the view shown
    isSaving,                 \* the list view shown: a submit or delete is in flight
    isGoalModalOpen,          \* HomeView: the goal form
    \* pure helpers
    call,   \* the pending call of a pure helper: its name and arguments
    ret     \* its result, or Pending before the helper has run

pureVars == <<call, ret>>

localVars ==
    <<activeUser, progressByUser, weightHistoryByUser, completedQuestIdsByUser,
      questHistoryByUser, rewardHistoryByUser, finalGoalWeightByUser, periodGoalByUser,
      displayMode, calendarWeights, calendarReqIdRef, calendarLoading>>

storeVars == <<profiles, weights, quest_history, reward_history, period_goals>>

listVars ==
    <<questDefinitions, rewardDefinitions, wishes, quests, rewards, wishesTable, userColumn>>

viewVars == <<activeTab, isEditorOpen, isSaving, isGoalModalOpen>>

sharedVars == <<listVars, viewVars>>

appVars == <<localVars, storeVars, ops, now, today, actions, ledger, sharedVars>>

vars == <<appVars, pureVars>>

(***************************************************************************)
(* JavaScript values                                                       *)
(***************************************************************************)
Null == -2
Undefined == -3
NaN == -1
NoIso == 0

\* The null period goal (and the missing row of a period_goals query).
NoGoal == [start_date |-> NoIso, end_date |-> NoIso, target_weight |-> Null]
Pending == [pending |-> TRUE]
Returned(v) == [pending |-> FALSE, value |-> v]

IsFinite(w) == w # NaN /\ w # Null

Max2(a, b) == IF a >= b THEN a ELSE b
Min2(a, b) == IF a <= b THEN a ELSE b

(***************************************************************************)
(* Array helpers                                                           *)
(***************************************************************************)
\* Array.prototype.sort((a, b) => a.isoDate.localeCompare(b.isoDate)): a
\* stable sort, ascending by date key.
RECURSIVE InsertByIso(_, _)
InsertByIso(sorted, x) ==
    IF sorted = <<>> THEN <<x>>
    ELSE IF Head(sorted).isoDate <= x.isoDate
         THEN <<Head(sorted)>> \o InsertByIso(Tail(sorted), x)
         ELSE <<x>> \o sorted

RECURSIVE SortByIso(_)
SortByIso(s) ==
    IF s = <<>> THEN <<>>
    ELSE InsertByIso(SortByIso(SubSeq(s, 1, Len(s) - 1)), s[Len(s)])

\* Array.prototype.find / findIndex over the indices that match: the first
\* one (1-based), 0 when nothing matches.
FirstIndex(matches) ==
    IF matches = {} THEN 0 ELSE CHOOSE i \in matches : \A j \in matches : i <= j

\* [...rows].reverse().find(...): the last index that matches, 0 when none.
LastIndex(matches) ==
    IF matches = {} THEN 0 ELSE CHOOSE i \in matches : \A j \in matches : i >= j

(***************************************************************************)
(* Goal engine (home-view.tsx)                                             *)
(***************************************************************************)
ValidSample(h) == h.isoDate # NoIso /\ IsFinite(h.weight)

BaselineRows(weightHistory) == SortByIso(SelectSeq(weightHistory, ValidSample))

\* The four rules, each returning an index into rows (0: no match).
BaselineExact(rows, startIso) ==
    FirstIndex({i \in 1..Len(rows) : rows[i].isoDate = startIso})

\* Mutant: rule 2 takes the earliest sample before the start, not the latest
\* (the reverse() is forgotten).
BaselineBefore_Earliest(rows, startIso) ==
    FirstIndex({i \in 1..Len(rows) : rows[i].isoDate < startIso})

BaselineBefore(rows, startIso) ==
    LastIndex({i \in 1..Len(rows) : rows[i].isoDate < startIso})

BaselineWithin(rows, startIso, endIso) ==
    FirstIndex({i \in 1..Len(rows) : rows[i].isoDate >= startIso /\ rows[i].isoDate <= endIso})

\* A variant of rule 4 that takes the latest sample after the start.
BaselineAfter_Latest(rows, startIso) ==
    LastIndex({i \in 1..Len(rows) : rows[i].isoDate > startIso})

BaselineAfter(rows, startIso) ==
    FirstIndex({i \in 1..Len(rows) : rows[i].isoDate > startIso})

\* Mutant: rule 3 (within the period) is tried before rule 2 (before start).
findBaselineWeight_WithinFirst(weightHistory, startIso, endIso) ==
    LET rows == BaselineRows(weightHistory)
        exact == BaselineExact(rows, startIso)
        before == BaselineBefore(rows, startIso)
        within == BaselineWithin(rows, startIso, endIso)
        after == BaselineAfter(rows, startIso)
    IN  IF Len(rows) = 0 THEN Null
        ELSE IF exact # 0 THEN rows[exact].weight
        ELSE IF within # 0 THEN rows[within].weight
        ELSE IF before # 0 THEN rows[before].weight
        ELSE IF after # 0 THEN rows[after].weight
        ELSE Null

findBaselineWeight(weightHistory, startIso, endIso) ==
    LET rows == BaselineRows(weightHistory)
        exact == BaselineExact(rows, startIso)
        before == BaselineBefore(rows, startIso)
        within == BaselineWithin(rows, startIso, endIso)
        after == BaselineAfter(rows, startIso)
    IN  IF Len(rows) = 0 THEN Null
        ELSE IF exact # 0 THEN rows[exact].weight
        ELSE IF before # 0 THEN rows[before].weight
        ELSE IF within # 0 THEN rows[within].weight
        ELSE IF after # 0 THEN rows[after].weight
        ELSE Null

\* Rationals <<n, d>> with d > 0 stand for the quotient the code computes.
Rat(n) == <<n, 1>>
RatDiv(n, d) == IF d > 0 THEN <<n, d>> ELSE <<0 - n, 0 - d>>
RatLeq(a, b) == a[1] * b[2] <= b[1] * a[2]
RatMax(a, b) == IF RatLeq(b, a) THEN a ELSE b
RatMin(a, b) == IF RatLeq(a, b) THEN a ELSE b

\* Mutant: the bounds are applied the wrong way round.
clamp_Swapped(n, min, max) == RatMax(max, RatMin(min, n))

clamp(n, min, max) == RatMin(max, RatMax(min, n))

\* Mutant: a zero-width goal counts as reached whatever the current weight.
periodProgress_ZeroWidthAlwaysDone(currentWeight, periodBaseline, goal) ==
    IF periodBaseline = Null \/ goal = Null \/ ~IsFinite(goal) THEN [null |-> TRUE]
    ELSE LET base == periodBaseline
             denom == goal - base
         IN  IF denom = 0
             THEN [null |-> FALSE, ratio |-> Rat(1), base |-> base, goal |-> goal]
             ELSE [null |-> FALSE,
                   ratio |-> clamp(RatDiv(currentWeight - base, denom), Rat(0), Rat(1)),
                   base |-> base, goal |-> goal]

periodProgress(currentWeight, periodBaseline, goal) ==
    IF periodBaseline = Null \/ goal = Null \/ ~IsFinite(goal) THEN [null |-> TRUE]
    ELSE LET base == periodBaseline
             denom == goal - base
         IN  IF denom = 0
             THEN [null |-> FALSE,
                   ratio |-> IF currentWeight = goal THEN Rat(1) ELSE Rat(0),
                   base |-> base, goal |-> goal]
             ELSE [null |-> FALSE,
                   ratio |-> clamp(RatDiv(currentWeight - base, denom), Rat(0), Rat(1)),
                   base |-> base, goal |-> goal]

\* page.tsx: weightHistory[weightHistory.length - 1]?.weight ?? 0
currentWeightOf(weightHistory) ==
    IF Len(weightHistory) = 0 THEN 0 ELSE weightHistory[Len(weightHistory)].weight

\* Mutant: the past sample is looked up by calendar distance from the last
\* sample's date instead of by position.
calculateComparison_ByCalendarDay(weightHistory, currentWeight, daysAgo) ==
    LET n == Len(weightHistory)
        lastIso == IF n = 0 THEN NoIso ELSE weightHistory[n].isoDate
        hit == FirstIndex({i \in 1..n : weightHistory[i].isoDate = lastIso - daysAgo})
    IN  IF n < daysAgo + 1 \/ hit = 0 THEN [diff |-> 0, hasData |-> FALSE]
        ELSE [diff |-> currentWeight - weightHistory[hit].weight, hasData |-> TRUE]

calculateComparison(weightHistory, currentWeight, daysAgo) ==
    IF Len(weightHistory) < daysAgo + 1 THEN [diff |-> 0, hasData |-> FALSE]
    ELSE LET pastWeight == weightHistory[Len(weightHistory) - daysAgo].weight
         IN  IF pastWeight = Null THEN [diff |-> 0, hasData |-> FALSE]
             ELSE [diff |-> currentWeight - pastWeight, hasData |-> TRUE]

\* HomeView: the three comparisons shown (previous day, week, month).
ComparisonOffsets == {1, 7, 30}

(***************************************************************************)
(* The application (page.tsx): constants, bounds and catalogs              *)
(***************************************************************************)
Users == {"jiiji", "baaba"}

\* handleRecordWeight: the bonus for recording a weight.
RecordBonus == 10
\* padTo20 and .limit(20) / .slice(0, 20): the history display window.
TargetCount == 20

\* Bounds of the model.
MaxActions == 2     \* user actions in one run
MaxInFlight == 2    \* handlers suspended at an await at the same time
MaxNow == 3         \* hours the clock may advance

Slots == 1..MaxInFlight

\* The shared catalogs as loaded from the store: quest id -> points and
\* reward id -> cost (both >= 0: Math.max(0, ...) on create and update).
QuestPoints == [q1 |-> 20]
RewardCost == [r1 |-> 20]
QuestIds == DOMAIN QuestPoints
RewardIds == DOMAIN RewardCost

(***************************************************************************)
(* Shared-list items.  An id is a prefix and a number: a store-assigned    *)
(* UUID has the empty prefix, makeId("quest-local") gives "quest-local-"   *)
(* followed by a UUID (or by a time and a random number), and the seed     *)
(* lists use "q1", "r1", "w1".  An item's amount is a quest's points or a  *)
(* reward's cost; completed is a wish's flag.                              *)
(***************************************************************************)
Uuid(n) == [prefix |-> "", n |-> n]

\* /^[0-9a-f]{8}-...-[0-9a-f]{12}$/i.test(id): anchored, so no prefixed id matches.
\* A variant that takes every id for a store id.
isUuidLike_Always(id) == TRUE

isUuidLike(id) == id.prefix = ""

\* makeId(prefix): unique by its random part, which is the number of the
\* user action that asks for it.
makeId(prefix, n) == [prefix |-> prefix, n |-> n]

Item(id, title, amount, completed) ==
    [id |-> id, title |-> title, amount |-> amount, completed |-> completed]

\* A row of quests / rewards / wishes: the item's columns and, on a table
\* that has the column "user", the user whose insert made the row.
NoUser == "none"

Row(id, title, amount, completed, user) ==
    [id |-> id, title |-> title, amount |-> amount, completed |-> completed, user |-> user]

\* The seed lists, cut to their first entry.
initialQuestDefinitions == <<Item([prefix |-> "q", n |-> 1], "walk", 50, FALSE)>>
initialRewardDefinitions == <<Item([prefix |-> "r", n |-> 1], "beer", 100, FALSE)>>
initialWishes == <<Item([prefix |-> "w", n |-> 1], "suit", 0, FALSE)>>

(***************************************************************************)
(* The store                                                               *)
(***************************************************************************)
NoProfile == [exists |-> FALSE, points |-> 0, final_goal_weight |-> Null]
NewProfile == [exists |-> TRUE, points |-> 0, final_goal_weight |-> Null]

\* An upsert that carries points: 0 (the variant the code's comment rules out).
EnsureProfile_ResetsPoints(rows, u) == [rows EXCEPT ![u] = NewProfile]

\* profiles.upsert({ user }, { onConflict: "user" }): creates the row with
\* the column defaults (points 0) or leaves the existing row as it is.
EnsureProfile(rows, u) == IF rows[u].exists THEN rows ELSE [rows EXCEPT ![u] = NewProfile]

\* profiles.select("points").eq("user", u).maybeSingle(): data?.points ?? 0.
SelectPoints(rows, u) == IF rows[u].exists THEN rows[u].points ELSE 0

\* profiles.update({ points: v }).eq("user", u), under the table's check
\* constraint profiles_points_nonnegative.
UpdatePoints(rows, u, v) ==
    IF rows[u].exists /\ v >= 0 THEN [rows EXCEPT ![u].points = v] ELSE rows

(***************************************************************************)
(* Suspended handlers                                                      *)
(***************************************************************************)
IdleOp ==
    [kind |-> "idle", user |-> "jiiji", pc |-> "idle", delta |-> 0, current |-> 0,
     readOk |-> TRUE, next |-> 0, held |-> 0, iso |-> NoIso, weight |-> 0,
     found |-> FALSE, reqId |-> 0, final |-> Undefined, period |-> NoGoal, born |-> 0,
     list |-> "none", id |-> Uuid(0), title |-> "", amount |-> 0, completed |-> FALSE,
     editor |-> FALSE, unscoped |-> 0, writeFailed |-> FALSE]

\* held and born are not program state: the balance the store held when the
\* handler read it, and the number of the user action that started the handler.
\* Nor are unscoped and writeFailed: the unscoped attempts of the handler's
\* latest shared-list call, and whether its update or delete failed with an
\* error other than the missing user column.
NewOp(kind, user, pc) ==
    [IdleOp EXCEPT !.kind = kind, !.user = user, !.pc = pc, !.born = actions + 1]

Free(o) == {i \in Slots : o[i].kind = "idle"}
CanSpawn(o, n) == Cardinality(Free(o)) >= n
Spawn(o, op) == [o EXCEPT ![CHOOSE i \in Free(o) : \A j \in Free(o) : i <= j] = op]
Finish(i) == [ops EXCEPT ![i] = IdleOp]
Goto(i, pc) == [ops EXCEPT ![i].pc = pc]

Take(s, n) == SubSeq(s, 1, Min2(Len(s), n))

(***************************************************************************)
(* History of applied deltas (not program state): for each user, the sum   *)
(* of the deltas applied so far, the balance the per-step rule predicts,   *)
(* whether every store call of every applyDelta succeeded, and whether the *)
(* applyDelta calls ran one after another.                                 *)
(***************************************************************************)
NewLedger == [sum |-> 0, balance |-> 0, steps |-> 0, allOk |-> TRUE, serial |-> TRUE]

\* Another applyDelta for the same user has read the balance and not yet
\* written it back.
Overlaps(i) ==
    \E j \in Slots \ {i} : ops[j].user = ops[i].user /\ ops[j].pc = "applyDelta:update"

LedgerAfterRead(i, ok) ==
    LET u == ops[i].user
    IN  [ledger EXCEPT ![u].serial = @ /\ ~Overlaps(i),
                       ![u].allOk = @ /\ ok]

LedgerAfterUpdate(i, ok) ==
    LET u == ops[i].user
        l == ledger[u]
        from == IF ops[i].readOk THEN l.balance ELSE 0
    IN  [ledger EXCEPT ![u].sum = l.sum + ops[i].delta,
                       ![u].balance = IF ok THEN Max2(0, from + ops[i].delta) ELSE l.balance,
                       ![u].steps = l.steps + 1,
                       ![u].allOk = l.allOk /\ ok]

(***************************************************************************)
(* Local lists                                                             *)
(***************************************************************************)
Sample(iso, w) == [isoDate |-> iso, weight |-> w]

\* An upsert that never replaces the day's sample.
upsertWeightHistory_AlwaysPush(prev, safeIso, weight) ==
    SortByIso(Append(prev, Sample(safeIso, weight)))

\* handleRecordWeight: the functional update of the user's series.
upsertWeightHistory(prev, safeIso, weight) ==
    LET idx == FirstIndex({i \in 1..Len(prev) : prev[i].isoDate = safeIso})
        newHistory == IF idx >= 1 THEN [prev EXCEPT ![idx] = Sample(safeIso, weight)]
                      ELSE Append(prev, Sample(safeIso, weight))
    IN  SortByIso(newHistory)

upsertMonthWeight(prev, isoDate, weight) ==
    LET idx == FirstIndex({i \in 1..Len(prev) : prev[i].isoDate = isoDate})
        out == IF idx >= 1 THEN [prev EXCEPT ![idx] = Sample(isoDate, weight)]
               ELSE Append(prev, Sample(isoDate, weight))
    IN  SortByIso(out)

\* The month the calendar shows (calendarActiveStartDate is the current
\* month; day numbers 1..31 are its days).
getMonthRangeIso == [startIso |-> 1, endExclusiveIso |-> 32]
InMonth(iso) == iso >= getMonthRangeIso.startIso /\ iso < getMonthRangeIso.endExclusiveIso

pointsList == <<10, 20, 30, 40, 50, 80, 100>>
costList == <<10, 30, 50, 60, 80, 100, 200>>

buildDummyQuestHistoryItem(i, offset) ==
    [occurredAt |-> now - (offset + i), isDummy |-> TRUE,
     points |-> pointsList[((offset + i) % Len(pointsList)) + 1]]

buildDummyRewardHistoryItem(i, offset) ==
    [occurredAt |-> now - (offset + i), isDummy |-> TRUE,
     cost |-> costList[((offset + i) % Len(costList)) + 1]]

\* A padTo20 that only truncates.
padTo20_Unpadded(items, dummies) == Take(items, TargetCount)

\* padTo20(items, makeDummy): dummies holds makeDummy(0), makeDummy(1), ...
padTo20(items, dummies) == Take(items \o dummies, TargetCount)

QuestDummies(offset) == [n \in 1..TargetCount |-> buildDummyQuestHistoryItem(n - 1, offset)]
RewardDummies(offset) == [n \in 1..TargetCount |-> buildDummyRewardHistoryItem(n - 1, offset)]

QuestItem(t, p) == [occurredAt |-> t, isDummy |-> FALSE, points |-> p]
RewardItem(t, c) == [occurredAt |-> t, isDummy |-> FALSE, cost |-> c]

(***************************************************************************)
(* HomeView effect: a month fetch starts when the calendar is shown and    *)
(* the displayed user's series (or the mode) has changed.                  *)
(***************************************************************************)
MonthFetchOp ==
    [NewOp("monthFetch", activeUser, "weights:range") EXCEPT !.reqId = calendarReqIdRef + 1]

fetchCalendarMonthWeights(o, mode, changed) ==
    IF mode = "calendar" /\ changed THEN Spawn(o, MonthFetchOp) ELSE o

\* setCalendarLoading(true) at the start of a fetch.
NextLoading(mode, changed) == (mode = "calendar" /\ changed) \/ calendarLoading

NextReqId(mode, changed) ==
    IF mode = "calendar" /\ changed THEN calendarReqIdRef + 1 ELSE calendarReqIdRef

(***************************************************************************)
(* User actions                                                            *)
(***************************************************************************)
\* A variant that completes a quest again.
CanComplete_Always(completed, questId) == TRUE

\* if (completedQuestIdsByUser[userKey].includes(questId)) return
CanComplete(completed, questId) == questId \notin completed

handleCompleteQuest(questId) ==
    LET userKey == activeUser
        target == QuestPoints[questId]
    IN  /\ actions < MaxActions
        /\ CanSpawn(ops, 1)
        /\ questId \in QuestIds
        /\ CanComplete(completedQuestIdsByUser[userKey], questId)
        /\ questHistoryByUser' =
              [questHistoryByUser EXCEPT
                 ![userKey] = Take(<<QuestItem(now, target)>> \o @, TargetCount)]
        /\ completedQuestIdsByUser' =
              [completedQuestIdsByUser EXCEPT ![userKey] = @ \cup {questId}]
        /\ progressByUser' = [progressByUser EXCEPT ![userKey].points = @ + target]
        /\ ops' = Spawn(ops, [NewOp("quest", userKey, "quest_history:insert")
                                EXCEPT !.delta = target])
        /\ actions' = actions + 1
        /\ UNCHANGED <<activeUser, weightHistoryByUser, rewardHistoryByUser,
                       finalGoalWeightByUser, periodGoalByUser, displayMode,
                       calendarWeights, calendarReqIdRef, calendarLoading, storeVars, now, today,
                       ledger, sharedVars, pureVars>>

\* A variant that redeems whatever the balance.
CanRedeem_Always(balance, cost) == TRUE

\* reward && points >= reward.cost
CanRedeem(balance, cost) == balance >= cost

\* A variant that credits the cost to the stored balance.
RedeemDelta_Credit(cost) == cost

\* applyProfilePointDelta(activeUser, -reward.cost)
RedeemDelta(cost) == -cost

handleRedeemReward(rewardId) ==
    LET userKey == activeUser
        cost == RewardCost[rewardId]
    IN  /\ actions < MaxActions
        /\ CanSpawn(ops, 1)
        /\ rewardId \in RewardIds
        /\ CanRedeem(progressByUser[userKey].points, cost)
        /\ rewardHistoryByUser' =
              [rewardHistoryByUser EXCEPT
                 ![userKey] = Take(<<RewardItem(now, cost)>> \o @, TargetCount)]
        /\ progressByUser' = [progressByUser EXCEPT ![userKey].points = @ - cost]
        /\ ops' = Spawn(ops, [NewOp("redeem", userKey, "reward_history:insert")
                                EXCEPT !.delta = RedeemDelta(cost)])
        /\ actions' = actions + 1
        /\ UNCHANGED <<activeUser, weightHistoryByUser, completedQuestIdsByUser,
                       questHistoryByUser, finalGoalWeightByUser, periodGoalByUser,
                       displayMode, calendarWeights, calendarReqIdRef, calendarLoading, storeVars,
                       now, today, ledger, sharedVars, pureVars>>

\* HomeView.handleWeightSubmit, which calls handleRecordWeight (onRecordWeight)
\* and then updates the calendar's month list.
handleWeightSubmit(weight, iso) ==
    LET userKey == activeUser
        recordOp == [NewOp("record", userKey, "weights:select")
                       EXCEPT !.delta = RecordBonus, !.iso = iso, !.weight = weight]
    IN  /\ actions < MaxActions
        /\ CanSpawn(ops, IF displayMode = "calendar" THEN 2 ELSE 1)
        /\ weightHistoryByUser' =
              [weightHistoryByUser EXCEPT ![userKey] = upsertWeightHistory(@, iso, weight)]
        /\ progressByUser' = [progressByUser EXCEPT ![userKey].points = @ + RecordBonus]
        /\ calendarWeights' =
              IF displayMode = "calendar" /\ InMonth(iso)
              THEN upsertMonthWeight(calendarWeights, iso, weight)
              ELSE calendarWeights
        /\ ops' = fetchCalendarMonthWeights(Spawn(ops, recordOp), displayMode, TRUE)
        /\ calendarReqIdRef' = NextReqId(displayMode, TRUE)
        /\ calendarLoading' = NextLoading(displayMode, TRUE)
        /\ actions' = actions + 1
        /\ UNCHANGED <<activeUser, completedQuestIdsByUser, questHistoryByUser,
                       rewardHistoryByUser, finalGoalWeightByUser, periodGoalByUser,
                       displayMode, storeVars, now, today, ledger, sharedVars, pureVars>>

(***************************************************************************)
(* Store calls of the suspended handlers.  ok is the outcome of the call:  *)
(* a call that fails changes nothing in the store and the handler goes on. *)
(***************************************************************************)
\* The frame of a step that changes only the store and the handler.
LocalUnchanged ==
    UNCHANGED <<activeUser, progressByUser, weightHistoryByUser, completedQuestIdsByUser,
                questHistoryByUser, rewardHistoryByUser, finalGoalWeightByUser,
                periodGoalByUser, displayMode, calendarWeights, calendarReqIdRef, calendarLoading>>

QuestHistoryInsert(i, ok) ==
    LET u == ops[i].user
    IN  /\ ops[i].pc = "quest_history:insert"
        /\ quest_history' =
              IF ok /\ profiles[u].exists
              THEN [quest_history EXCEPT
                      ![u] = Append(@, [created_at |-> now, points |-> ops[i].delta])]
              ELSE quest_history
        /\ ops' = Goto(i, "applyDelta:upsert")
        /\ LocalUnchanged
        /\ UNCHANGED <<profiles, weights, reward_history, period_goals, now, today,
                       actions, ledger, sharedVars, pureVars>>

RewardHistoryInsert(i, ok) ==
    LET u == ops[i].user
    IN  /\ ops[i].pc = "reward_history:insert"
        /\ reward_history' =
              IF ok /\ profiles[u].exists
              THEN [reward_history EXCEPT
                      ![u] = Append(@, [created_at |-> now, cost |-> -ops[i].delta])]
              ELSE reward_history
        /\ ops' = Goto(i, "applyDelta:upsert")
        /\ LocalUnchanged
        /\ UNCHANGED <<profiles, weights, quest_history, period_goals, now, today,
                       actions, ledger, sharedVars, pureVars>>

\* applyProfilePointDelta: the three awaited calls.
ApplyDeltaUpsert(i, ok) ==
    /\ ops[i].pc = "applyDelta:upsert"
    /\ profiles' = IF ok THEN EnsureProfile(profiles, ops[i].user) ELSE profiles
    /\ ops' = Goto(i, "applyDelta:select")
    /\ LocalUnchanged
    /\ UNCHANGED <<weights, quest_history, reward_history, period_goals, now, today,
                   actions, ledger, sharedVars, pureVars>>

\* const next = Math.max(0, safeCurrent + delta)
NextPoints(current, delta) == Max2(0, current + delta)

ApplyDeltaSelect(i, ok) ==
    LET u == ops[i].user
        current == IF ok THEN SelectPoints(profiles, u) ELSE 0
    IN  /\ ops[i].pc = "applyDelta:select"
        /\ ops' = [ops EXCEPT ![i].pc = "applyDelta:update",
                              ![i].current = current,
                              ![i].readOk = ok,
                              ![i].held = SelectPoints(profiles, u),
                              ![i].next = NextPoints(current, ops[i].delta)]
        /\ ledger' = LedgerAfterRead(i, ok)
        /\ LocalUnchanged
        /\ UNCHANGED <<storeVars, now, today, actions, sharedVars, pureVars>>

ApplyDeltaUpdate(i, ok) ==
    LET u == ops[i].user
    IN  /\ ops[i].pc = "applyDelta:update"
        /\ profiles' = IF ok THEN UpdatePoints(profiles, u, ops[i].next) ELSE profiles
        /\ ledger' = LedgerAfterUpdate(i, ok /\ profiles[u].exists)
        /\ ops' = Goto(i, "refresh:upsert")
        /\ LocalUnchanged
        /\ UNCHANGED <<weights, quest_history, reward_history, period_goals, now, today,
                       actions, sharedVars, pureVars>>

\* refreshPointsFromProfiles: the two awaited calls.  handleRecordWeight and
\* loadLatest go on after it; the click handlers of QuestView and RewardView
\* call it after onCompleteQuest and onRedeem have returned, and end with it.
RefreshUpsert(i, ok) ==
    /\ ops[i].pc = "refresh:upsert"
    /\ profiles' =
          IF ok THEN EnsureProfile(EnsureProfile(profiles, "jiiji"), "baaba") ELSE profiles
    /\ ops' = Goto(i, "refresh:select")
    /\ LocalUnchanged
    /\ UNCHANGED <<weights, quest_history, reward_history, period_goals, now, today,
                   actions, ledger, sharedVars, pureVars>>

AfterRefresh(i) == IF ops[i].kind = "record" THEN "weights:refetch" ELSE "list:refresh"

\* A variant that never lowers the balance shown.
RefreshedPoints_Merged(prev, row) == IF row.exists THEN Max2(prev, row.points) ELSE prev

\* map.get(user) ?? prev.points
RefreshedPoints(prev, row) == IF row.exists THEN row.points ELSE prev

RefreshSelect(i, ok) ==
    /\ ops[i].pc = "refresh:select"
    /\ progressByUser' =
          IF ok
          THEN [u \in Users |->
                  [progressByUser[u] EXCEPT !.points = RefreshedPoints(@, profiles[u])]]
          ELSE progressByUser
    /\ ops' = IF ops[i].kind \in {"quest", "redeem"} THEN Finish(i)
              ELSE Goto(i, AfterRefresh(i))
    /\ UNCHANGED <<activeUser, weightHistoryByUser, completedQuestIdsByUser,
                   questHistoryByUser, rewardHistoryByUser, finalGoalWeightByUser,
                   periodGoalByUser, displayMode, calendarWeights, calendarReqIdRef, calendarLoading,
                   storeVars, now, today, actions, ledger, sharedVars, pureVars>>

\* weights rows of one user, .order("recorded_at", { ascending: true }),
\* mapped to samples (normalizeISODate of a date column is that date).
RECURSIVE RowsAscending(_)
RowsAscending(rows) ==
    IF rows = {} THEN <<>>
    ELSE LET r == CHOOSE x \in rows : \A y \in rows : x.recorded_at <= y.recorded_at
         IN  <<Sample(r.recorded_at, r.weight)>> \o RowsAscending(rows \ {r})

\* handleRecordWeight: look the day's row up, then update or insert it.
WeightsSelect(i, ok) ==
    LET u == ops[i].user
    IN  /\ ops[i].pc = "weights:select"
        /\ ops' = [ops EXCEPT
                     ![i].pc = "weights:write",
                     ![i].found = ok /\ \E r \in weights[u] : r.recorded_at = ops[i].iso]
        /\ LocalUnchanged
        /\ UNCHANGED <<storeVars, now, today, actions, ledger, sharedVars, pureVars>>

\* update({ weight }).eq("id", ...) of the row found; insert(...) otherwise,
\* which the foreign key to profiles and the unique index on
\* ("user", recorded_at) may reject.
\* A variant without the unique index.
UniqueIndexAllows_NoIndex(rows, iso) == TRUE

\* create unique index ... on public.weights ("user", recorded_at): an insert
\* is refused when the user already has a row of that date.
UniqueIndexAllows(rows, iso) == \A r \in rows : r.recorded_at # iso

WeightsWrite(i, ok) ==
    LET u == ops[i].user
        row == [recorded_at |-> ops[i].iso, weight |-> ops[i].weight]
        others == {r \in weights[u] : r.recorded_at # ops[i].iso}
    IN  /\ ops[i].pc = "weights:write"
        /\ weights' =
              IF ~ok THEN weights
              ELSE IF ops[i].found
                   THEN [weights EXCEPT ![u] = IF others = @ THEN @ ELSE others \cup {row}]
                   ELSE IF profiles[u].exists /\ UniqueIndexAllows(weights[u], ops[i].iso)
                        THEN [weights EXCEPT ![u] = @ \cup {row}]
                        ELSE weights
        /\ ops' = Goto(i, "applyDelta:upsert")
        /\ LocalUnchanged
        /\ UNCHANGED <<profiles, quest_history, reward_history, period_goals, now, today,
                       actions, ledger, sharedVars, pureVars>>

\* handleRecordWeight: the series is read back and replaces the local one.
\* A variant that files the series read under the user shown.
RefetchKey_Active(i) == activeUser

\* const userKey = toUserKey(user), taken when the handler starts
RefetchKey(i) == ops[i].user

WeightsRefetch(i, ok) ==
    LET user == ops[i].user
        changed == ok /\ user = activeUser
    IN  /\ ops[i].pc = "weights:refetch"
        /\ weightHistoryByUser' =
              IF ok THEN [weightHistoryByUser EXCEPT
                            ![RefetchKey(i)] = SortByIso(RowsAscending(weights[user]))]
              ELSE weightHistoryByUser
        /\ ops' = fetchCalendarMonthWeights(Finish(i), displayMode, changed)
        /\ calendarReqIdRef' = NextReqId(displayMode, changed)
        /\ calendarLoading' = NextLoading(displayMode, changed)
        /\ UNCHANGED <<activeUser, progressByUser, completedQuestIdsByUser,
                       questHistoryByUser, rewardHistoryByUser, finalGoalWeightByUser,
                       periodGoalByUser, displayMode, calendarWeights, storeVars, now,
                       today, actions, ledger, sharedVars, pureVars>>

\* fetchWeightsForRange and the rest of fetchCalendarMonthWeights: the rows
\* of the month ([] when the read fails) replace the month list unless a
\* later fetch has started.
\* A variant that takes every response for the latest fetch's.
IsLatestRequest_Always(i) == TRUE

\* calendarReqIdRef.current === reqId
IsLatestRequest(i) == calendarReqIdRef = ops[i].reqId

MonthFetchReturn(i, ok) ==
    LET inMonth == {r \in weights[ops[i].user] : InMonth(r.recorded_at)}
        rows == IF ok THEN SortByIso(RowsAscending(inMonth)) ELSE <<>>
    IN  /\ ops[i].pc = "weights:range"
        /\ calendarWeights' = IF IsLatestRequest(i) THEN rows ELSE calendarWeights
        /\ calendarLoading' = IF IsLatestRequest(i) THEN FALSE ELSE calendarLoading
        /\ ops' = Finish(i)
        /\ UNCHANGED <<activeUser, progressByUser, weightHistoryByUser,
                       completedQuestIdsByUser, questHistoryByUser, rewardHistoryByUser,
                       finalGoalWeightByUser, periodGoalByUser, displayMode,
                       calendarReqIdRef, storeVars, now, today, actions, ledger, sharedVars, pureVars>>

(***************************************************************************)
(* The shared lists (quests, rewards, wishes): refresh and the store calls *)
(* of create, update, delete and toggle.  Every call is first made scoped  *)
(* by user (.eq("user", user), or user in the inserted row); res is the    *)
(* outcome of the scoped call and ok the outcome of the unscoped one.      *)
(***************************************************************************)
Lists == {"quests", "rewards", "wishes"}

Local(L) ==
    CASE L = "quests" -> questDefinitions
      [] L = "rewards" -> rewardDefinitions
      [] OTHER -> wishes

StoredRows(L) ==
    CASE L = "quests" -> quests
      [] L = "rewards" -> rewards
      [] OTHER -> wishesTable

\* setQuestDefinitions / setRewardDefinitions / setWishes
SetLocal(L, v) ==
    /\ questDefinitions' = IF L = "quests" THEN v ELSE questDefinitions
    /\ rewardDefinitions' = IF L = "rewards" THEN v ELSE rewardDefinitions
    /\ wishes' = IF L = "wishes" THEN v ELSE wishes

SetStored(L, v) ==
    /\ quests' = IF L = "quests" THEN v ELSE quests
    /\ rewards' = IF L = "rewards" THEN v ELSE rewards
    /\ wishesTable' = IF L = "wishes" THEN v ELSE wishesTable
    /\ UNCHANGED userColumn

LocalListsUnchanged == UNCHANGED <<questDefinitions, rewardDefinitions, wishes>>
StoredListsUnchanged == UNCHANGED <<quests, rewards, wishesTable, userColumn>>

\* Outcomes of a scoped call: success, the two messages that report a
\* missing user column, and any other error.
ScopedResults == {"ok", "userColumnSchemaCache", "userColumnDoesNotExist", "other"}

\* A variant that takes every error for a missing user column.
isMissingUserColumnError_AnyError(res) == res # "ok"

isMissingUserColumnError(res) ==
    res \in {"userColumnSchemaCache", "userColumnDoesNotExist"}

\* What the store can answer to a call that names the column "user": the
\* missing-column errors on a table without it, success on a table with it.
ScopedOutcome(res) == IF userColumn THEN res \in {"ok", "other"} ELSE res # "ok"

Reverse(s) == [n \in 1..Len(s) |-> s[Len(s) + 1 - n]]

KeepRow(r) == r.title # ""

\* .order("created_at", { ascending: false }) and the flatMap that drops
\* rows without id or title.
ItemsOfRows(rows) ==
    LET kept == SelectSeq(Reverse(rows), KeepRow)
    IN  [n \in 1..Len(kept) |->
            Item(kept[n].id, kept[n].title, kept[n].amount, kept[n].completed)]

\* .eq("user", user)
RowsOfUser(rows, user) == SelectSeq(rows, LAMBDA r : r.user = user)

\* What follows a refresh: loadLatest goes on to the next list and then to
\* the goals; a handler that ends with a refresh ends.
AfterListRefresh(i) ==
    IF ops[i].kind = "load"
    THEN IF ops[i].list = "quests" THEN [ops EXCEPT ![i].list = "rewards", ![i].pc = "list:refresh"]
         ELSE IF ops[i].list = "rewards"
              THEN [ops EXCEPT ![i].list = "wishes", ![i].pc = "list:refresh"]
              ELSE [ops EXCEPT ![i].list = "none", ![i].pc = "goal:final"]
    ELSE Finish(i)

\* The count of unscoped attempts restarts with every scoped call.
AfterScoped(o, i) == IF o[i].kind = "idle" THEN o ELSE [o EXCEPT ![i].unscoped = 0]
AfterUnscoped(o, i) ==
    IF o[i].kind = "idle" THEN o ELSE [o EXCEPT ![i].unscoped = ops[i].unscoped + 1]

WriteDone(i, failed) == [ops EXCEPT ![i].pc = "list:refresh", ![i].writeFailed = failed]

\* submit of QuestView / RewardView / DreamView after the awaited handler:
\* setIsEditorOpen(false) and, in finally, setIsSaving(false); the delete
\* button's handler after it: setDeleteTarget(null) and setIsSaving(false).
\* editor is set on the handlers the view shown awaits.
SettleView(i, o) ==
    IF ops[i].editor /\ o[i].kind = "idle"
    THEN /\ isEditorOpen' = IF ops[i].kind = "delete" THEN isEditorOpen ELSE FALSE
         /\ isSaving' = FALSE
         /\ UNCHANGED <<activeTab, isGoalModalOpen>>
    ELSE UNCHANGED viewVars

\* The frame of a step of a shared-list handler.
PerUserUnchanged ==
    UNCHANGED <<localVars, storeVars, now, today, actions, ledger, pureVars>>

\* refreshQuests / refreshRewards / refreshWishes: the select scoped by user.
RefreshScoped(i, res) ==
    LET L == ops[i].list
        o == AfterScoped(IF isMissingUserColumnError(res)
                         THEN Goto(i, "list:refreshUnscoped")
                         ELSE AfterListRefresh(i), i)
    IN  /\ ops[i].pc = "list:refresh"
        /\ ScopedOutcome(res)
        /\ SetLocal(L, IF res = "ok" THEN ItemsOfRows(RowsOfUser(StoredRows(L), ops[i].user))
                       ELSE Local(L))
        /\ ops' = o
        /\ SettleView(i, o)
        /\ StoredListsUnchanged
        /\ PerUserUnchanged

RefreshUnscoped(i, ok) ==
    LET L == ops[i].list
        o == AfterUnscoped(AfterListRefresh(i), i)
    IN  /\ ops[i].pc = "list:refreshUnscoped"
        /\ SetLocal(L, IF ok THEN ItemsOfRows(StoredRows(L)) ELSE Local(L))
        /\ ops' = o
        /\ SettleView(i, o)
        /\ StoredListsUnchanged
        /\ PerUserUnchanged

\* The row an insert of the handler's fields creates: the store assigns the
\* id, and completed is false.
InsertedRow(i, user) == Row(Uuid(ops[i].born), ops[i].title, ops[i].amount, FALSE, user)

\* makeId("quest-local") / makeId("reward-local") / makeId("wish-local")
LocalPrefix(L) ==
    CASE L = "quests" -> "quest-local"
      [] L = "rewards" -> "reward-local"
      [] OTHER -> "wish-local"

\* The entry a failed create puts at the head of the local list.
LocalEntry(i) ==
    Item(makeId(LocalPrefix(ops[i].list), ops[i].born), ops[i].title, ops[i].amount, FALSE)

\* After the insert of handleCreate* (kind "create") or of handleUpdate* on
\* an id that is not a UUID (kind "update"): refresh on success; on failure
\* a create adds the local entry and an update just ends.
AfterInsert(i, inserted) ==
    IF inserted THEN Goto(i, "list:refresh") ELSE Finish(i)

\* A variant that never adds the local entry.
LocalAfterInsert_NoEntry(i, inserted) == Local(ops[i].list)

LocalAfterInsert(i, inserted) ==
    IF ~inserted /\ ops[i].kind = "create"
    THEN <<LocalEntry(i)>> \o Local(ops[i].list)
    ELSE Local(ops[i].list)

InsertScoped(i, res) ==
    LET L == ops[i].list
        o == AfterScoped(IF isMissingUserColumnError(res)
                         THEN Goto(i, "list:insertUnscoped")
                         ELSE AfterInsert(i, res = "ok"), i)
    IN  /\ ops[i].pc = "list:insert"
        /\ ScopedOutcome(res)
        /\ SetStored(L, IF res = "ok" THEN Append(StoredRows(L), InsertedRow(i, ops[i].user))
                        ELSE StoredRows(L))
        /\ SetLocal(L, IF isMissingUserColumnError(res) THEN Local(L)
                       ELSE LocalAfterInsert(i, res = "ok"))
        /\ ops' = o
        /\ SettleView(i, o)
        /\ PerUserUnchanged

InsertUnscoped(i, ok) ==
    LET L == ops[i].list
        o == AfterUnscoped(AfterInsert(i, ok), i)
    IN  /\ ops[i].pc = "list:insertUnscoped"
        /\ SetStored(L, IF ok THEN Append(StoredRows(L), InsertedRow(i, NoUser))
                        ELSE StoredRows(L))
        /\ SetLocal(L, LocalAfterInsert(i, ok))
        /\ ops' = o
        /\ SettleView(i, o)
        /\ PerUserUnchanged

\* .eq("id", id), and .eq("user", user) in a scoped call
Targeted(i, r, scoped) == r.id = ops[i].id /\ (scoped => r.user = ops[i].user)

\* .update({ title, ... }).eq("id", id) of handleUpdate*, or
\* .update({ completed }).eq("id", id) of handleToggleWish.
UpdatedRows(i, rows, scoped) ==
    [n \in 1..Len(rows) |->
        IF ~Targeted(i, rows[n], scoped) THEN rows[n]
        ELSE IF ops[i].kind = "toggle" THEN [rows[n] EXCEPT !.completed = ops[i].completed]
        ELSE [rows[n] EXCEPT !.title = ops[i].title, !.amount = ops[i].amount]]

UpdateScoped(i, res) ==
    LET L == ops[i].list
    IN  /\ ops[i].pc = "list:update"
        /\ ScopedOutcome(res)
        /\ SetStored(L, IF res = "ok" THEN UpdatedRows(i, StoredRows(L), TRUE)
                        ELSE StoredRows(L))
        /\ ops' = AfterScoped(IF isMissingUserColumnError(res)
                              THEN Goto(i, "list:updateUnscoped")
                              ELSE WriteDone(i, res # "ok"), i)
        /\ LocalListsUnchanged
        /\ UNCHANGED viewVars
        /\ PerUserUnchanged

UpdateUnscoped(i, ok) ==
    LET L == ops[i].list
    IN  /\ ops[i].pc = "list:updateUnscoped"
        /\ SetStored(L, IF ok THEN UpdatedRows(i, StoredRows(L), FALSE) ELSE StoredRows(L))
        /\ ops' = AfterUnscoped(WriteDone(i, ~ok), i)
        /\ LocalListsUnchanged
        /\ UNCHANGED viewVars
        /\ PerUserUnchanged

OtherRow(r, id) == r.id # id

\* .delete().eq("id", id)
DeletedRows(i, rows, scoped) == SelectSeq(rows, LAMBDA r : ~Targeted(i, r, scoped))

DeleteScoped(i, res) ==
    LET L == ops[i].list
    IN  /\ ops[i].pc = "list:delete"
        /\ ScopedOutcome(res)
        /\ SetStored(L, IF res = "ok" THEN DeletedRows(i, StoredRows(L), TRUE)
                        ELSE StoredRows(L))
        /\ ops' = AfterScoped(IF isMissingUserColumnError(res)
                              THEN Goto(i, "list:deleteUnscoped")
                              ELSE WriteDone(i, res # "ok"), i)
        /\ LocalListsUnchanged
        /\ UNCHANGED viewVars
        /\ PerUserUnchanged

DeleteUnscoped(i, ok) ==
    LET L == ops[i].list
    IN  /\ ops[i].pc = "list:deleteUnscoped"
        /\ SetStored(L, IF ok THEN DeletedRows(i, StoredRows(L), FALSE) ELSE StoredRows(L))
        /\ ops' = AfterUnscoped(WriteDone(i, ~ok), i)
        /\ LocalListsUnchanged
        /\ UNCHANGED viewVars
        /\ PerUserUnchanged

(***************************************************************************)
(* The shared lists: the handlers of WeightManagementApp and the editor of *)
(* QuestView / RewardView that calls them.                                 *)
(***************************************************************************)
\* title.trim() on the titles the model enters: "", " " and words.
Trim(t) == IF t = " " THEN "" ELSE t

\* Number(pointsInput.trim()) on the inputs the model enters.
NumberOf(input) ==
    CASE input = "" -> 0
      [] input = "30" -> 30
      [] OTHER -> NaN

ListOfTab(tab) ==
    CASE tab = "quest" -> "quests"
      [] tab = "reward" -> "rewards"
      [] OTHER -> "wishes"

\* editingQuestId == null: the editor adds an item.
NoId == [prefix |-> "none", n |-> 0]

ListOp(kind, pc, L, id, title, amount, editor) ==
    [NewOp(kind, activeUser, pc) EXCEPT !.list = L, !.id = id, !.title = title,
                                        !.amount = amount, !.editor = editor]

\* handleCreateQuest / handleCreateReward / handleCreateWish
handleCreate(L, title, amount, editor) ==
    LET safeTitle == Trim(title)
    IN  /\ ops' = IF safeTitle = "" THEN ops
                  ELSE Spawn(ops, ListOp("create", "list:insert", L, NoId, safeTitle,
                                         Max2(0, amount), editor))
        /\ UNCHANGED <<listVars, completedQuestIdsByUser>>

EditedItems(items, id, title, amount) ==
    [n \in 1..Len(items) |->
        IF items[n].id = id THEN [items[n] EXCEPT !.title = title, !.amount = amount]
        ELSE items[n]]

\* handleUpdateQuest / handleUpdateReward / handleUpdateWish
handleUpdate(L, id, title, amount, editor) ==
    LET safeTitle == Trim(title)
        pc == IF isUuidLike(id) THEN "list:update" ELSE "list:insert"
    IN  /\ SetLocal(L, IF safeTitle = "" THEN Local(L)
                       ELSE EditedItems(Local(L), id, safeTitle, Max2(0, amount)))
        /\ ops' = IF safeTitle = "" THEN ops
                  ELSE Spawn(ops, ListOp("update", pc, L, id, safeTitle, Max2(0, amount),
                                         editor))
        /\ StoredListsUnchanged
        /\ UNCHANGED completedQuestIdsByUser

\* handleDeleteQuest / handleDeleteReward / handleDeleteWish
\* A variant that routes the delete of an id that is not a store id to the
\* insert of a create.
DeleteCall_AsCreate(id) == IF isUuidLike(id) THEN "list:delete" ELSE "list:insert"

\* The store call handleDelete* makes first: the delete for a store id, and
\* for any other id none before the refresh.
DeleteCall(id) == IF isUuidLike(id) THEN "list:delete" ELSE "list:refresh"

handleDelete(L, id, editor) ==
    LET pc == DeleteCall(id)
    IN  /\ SetLocal(L, SelectSeq(Local(L), LAMBDA r : OtherRow(r, id)))
        /\ completedQuestIdsByUser' =
              IF L = "quests"
              THEN [u \in Users |-> {q \in completedQuestIdsByUser[u] : q # id}]
              ELSE completedQuestIdsByUser
        /\ ops' = Spawn(ops, ListOp("delete", pc, L, id, "", 0, editor))
        /\ StoredListsUnchanged

ToggledItems(items, id) ==
    [n \in 1..Len(items) |->
        IF items[n].id = id THEN [items[n] EXCEPT !.completed = ~items[n].completed]
        ELSE items[n]]

\* The completed flag the updater passed to setWishes computes for wishId.
NextCompleted(id) ==
    LET hits == {n \in 1..Len(wishes) : wishes[n].id = id}
    IN  ~wishes[CHOOSE n \in hits : TRUE].completed

\* handleToggleWish.  nextCompleted is assigned inside the updater passed to
\* setWishes and read right after the call: ran is whether React has run the
\* updater by then (it runs it at once only when no update is queued).
handleToggleWish(wishId, ran) ==
    LET known == \E n \in 1..Len(wishes) : wishes[n].id = wishId
        write == isUuidLike(wishId) /\ ran /\ known
        op == [ListOp("toggle", "list:update", "wishes", wishId, "", 0, FALSE)
                 EXCEPT !.completed = NextCompleted(wishId)]
    IN  /\ SetLocal("wishes", ToggledItems(wishes, wishId))
        /\ ops' = IF write THEN Spawn(ops, op) ELSE ops
        /\ StoredListsUnchanged
        /\ UNCHANGED completedQuestIdsByUser

\* What a shared-list action leaves alone.
ListActionFrame ==
    UNCHANGED <<activeUser, progressByUser, weightHistoryByUser, questHistoryByUser,
                rewardHistoryByUser, finalGoalWeightByUser, periodGoalByUser, displayMode,
                calendarWeights, calendarReqIdRef, calendarLoading, storeVars, now, today, ledger, pureVars>>

\* QuestView / RewardView / DreamView: openAdd and openEdit (the fields of
\* the form are the arguments of submit).
openEditor ==
    /\ activeTab \in {"quest", "reward", "dream"}
    /\ ~isEditorOpen
    /\ isEditorOpen' = TRUE
    /\ UNCHANGED <<activeTab, isSaving, isGoalModalOpen, listVars, localVars, storeVars,
                   ops, now, today, actions, ledger, pureVars>>

canSubmit(title, pointsInput) ==
    LET p == NumberOf(pointsInput)
    IN  Trim(title) # "" /\ IsFinite(p) /\ p >= 0 /\ ~isSaving

\* submit of the list view shown, up to the awaited handler.
EditorSubmit(tabs, editingId, title, pointsInput) ==
    LET L == ListOfTab(activeTab)
        points == Max2(0, NumberOf(pointsInput))
    IN  /\ activeTab \in tabs
        /\ isEditorOpen
        /\ editingId = NoId \/ \E n \in 1..Len(Local(L)) : Local(L)[n].id = editingId
        /\ actions < MaxActions
        /\ CanSpawn(ops, 1)
        /\ IF canSubmit(title, pointsInput)
           THEN /\ isSaving' = TRUE
                /\ IF editingId = NoId THEN handleCreate(L, Trim(title), points, TRUE)
                   ELSE handleUpdate(L, editingId, Trim(title), points, TRUE)
           ELSE UNCHANGED <<isSaving, listVars, completedQuestIdsByUser, ops>>
        /\ actions' = actions + 1
        /\ UNCHANGED <<activeTab, isEditorOpen, isGoalModalOpen>>
        /\ ListActionFrame

\* QuestView.submit / RewardView.submit
submit(editingId, title, pointsInput) ==
    EditorSubmit({"quest", "reward"}, editingId, title, pointsInput)

\* The delete button of the confirmation dialog of the list view shown
\* (disabled while isSaving; the dialog opens from the list, so with the
\* editor closed): setIsSaving(true) and the awaited onDelete*(id).
DeleteConfirm(tabs, id) ==
    LET L == ListOfTab(activeTab)
    IN  /\ activeTab \in tabs
        /\ ~isEditorOpen
        /\ ~isSaving
        /\ \E n \in 1..Len(Local(L)) : Local(L)[n].id = id
        /\ actions < MaxActions
        /\ CanSpawn(ops, 1)
        /\ handleDelete(L, id, TRUE)
        /\ isSaving' = TRUE
        /\ actions' = actions + 1
        /\ UNCHANGED <<activeTab, isEditorOpen, isGoalModalOpen>>
        /\ ListActionFrame

\* The delete confirmation of QuestView / RewardView: onDeleteQuest(id).
confirmDelete(id) == DeleteConfirm({"quest", "reward"}, id)

\* The toggle of the wish list (DreamView) calls the handler of the page
\* directly.
WishAction(body) ==
    /\ activeTab = "dream"
    /\ actions < MaxActions
    /\ CanSpawn(ops, 1)
    /\ body
    /\ actions' = actions + 1
    /\ UNCHANGED viewVars
    /\ ListActionFrame

\* DreamView.submit: its canSubmit has no amount field, and the wish is
\* stored without one.
onCreateWish(title) == EditorSubmit({"dream"}, NoId, title, "")

onUpdateWish(id, title) ==
    /\ \E n \in 1..Len(wishes) : wishes[n].id = id
    /\ EditorSubmit({"dream"}, id, title, "")

onDeleteWish(id) ==
    /\ \E n \in 1..Len(wishes) : wishes[n].id = id
    /\ DeleteConfirm({"dream"}, id)

onToggleWish(id, ran) ==
    /\ \E n \in 1..Len(wishes) : wishes[n].id = id
    /\ WishAction(handleToggleWish(id, ran))

(***************************************************************************)
(* loadLatest: the awaited calls after the refreshes                       *)
(***************************************************************************)
\* A variant that shows no final goal when the read fails.
LoadFinalGoal_NullOnError(i, ok) ==
    LET u == ops[i].user
        fg == IF ok /\ profiles[u].exists THEN profiles[u].final_goal_weight ELSE Null
    IN  /\ ops[i].pc = "goal:final"
        /\ finalGoalWeightByUser' = [finalGoalWeightByUser EXCEPT ![u] = fg]
        /\ ops' = Goto(i, "goal:active")
        /\ UNCHANGED <<activeUser, progressByUser, weightHistoryByUser,
                       completedQuestIdsByUser, questHistoryByUser, rewardHistoryByUser,
                       periodGoalByUser, displayMode, calendarWeights, calendarReqIdRef, calendarLoading,
                       storeVars, now, today, actions, ledger, sharedVars, pureVars>>

\* profiles.select("final_goal_weight").maybeSingle()
LoadFinalGoal(i, ok) ==
    LET u == ops[i].user
        fg == IF profiles[u].exists THEN profiles[u].final_goal_weight ELSE Null
    IN  /\ ops[i].pc = "goal:final"
        /\ finalGoalWeightByUser' =
              IF ok THEN [finalGoalWeightByUser EXCEPT ![u] = fg] ELSE finalGoalWeightByUser
        /\ ops' = Goto(i, "goal:active")
        /\ UNCHANGED <<activeUser, progressByUser, weightHistoryByUser,
                       completedQuestIdsByUser, questHistoryByUser, rewardHistoryByUser,
                       periodGoalByUser, displayMode, calendarWeights, calendarReqIdRef, calendarLoading,
                       storeVars, now, today, actions, ledger, sharedVars, pureVars>>

\* period_goals rows of a user that contain today, and the rows a query
\* ordered by end_date with limit(1) may return (NoGoal when there is none).
ActiveRows(u) == {r \in period_goals[u] : r.start_date <= today /\ today <= r.end_date}
\* A variant that lets the query return any of the rows.
EarliestEnd_AnyRow(rows) == IF rows = {} THEN {NoGoal} ELSE rows

EarliestEnd(rows) ==
    IF rows = {} THEN {NoGoal} ELSE {r \in rows : \A q \in rows : r.end_date <= q.end_date}
LatestEnd(rows) ==
    IF rows = {} THEN {NoGoal} ELSE {r \in rows : \A q \in rows : r.end_date >= q.end_date}

\* The goal shown for a row read from period_goals.
GoalOfRow(row) ==
    IF row.start_date = NoIso \/ row.end_date = NoIso THEN NoGoal
    ELSE [start_date |-> row.start_date, end_date |-> row.end_date,
          target_weight |-> row.target_weight]

LoadActiveGoal(i, ok) ==
    LET u == ops[i].user
    IN  /\ ops[i].pc = "goal:active"
        /\ \E row \in EarliestEnd(ActiveRows(u)) :
              /\ periodGoalByUser' =
                    IF ok /\ row # NoGoal
                    THEN [periodGoalByUser EXCEPT ![u] = GoalOfRow(row)]
                    ELSE periodGoalByUser
              /\ ops' = IF ok /\ row = NoGoal THEN Goto(i, "goal:latest")
                        ELSE Goto(i, "weights:load")
        /\ UNCHANGED <<activeUser, progressByUser, weightHistoryByUser,
                       completedQuestIdsByUser, questHistoryByUser, rewardHistoryByUser,
                       finalGoalWeightByUser, displayMode, calendarWeights,
                       calendarReqIdRef, calendarLoading, storeVars, now, today, actions, ledger, sharedVars, pureVars>>

LoadLatestGoal(i, ok) ==
    LET u == ops[i].user
    IN  /\ ops[i].pc = "goal:latest"
        /\ \E row \in LatestEnd(period_goals[u]) :
              periodGoalByUser' =
                 IF ok THEN [periodGoalByUser EXCEPT ![u] = GoalOfRow(row)]
                 ELSE periodGoalByUser
        /\ ops' = Goto(i, "weights:load")
        /\ UNCHANGED <<activeUser, progressByUser, weightHistoryByUser,
                       completedQuestIdsByUser, questHistoryByUser, rewardHistoryByUser,
                       finalGoalWeightByUser, displayMode, calendarWeights,
                       calendarReqIdRef, calendarLoading, storeVars, now, today, actions, ledger, sharedVars, pureVars>>

LoadWeights(i, ok) ==
    LET userKey == ops[i].user
        changed == ok /\ userKey = activeUser
    IN  /\ ops[i].pc = "weights:load"
        /\ weightHistoryByUser' =
              IF ok THEN [weightHistoryByUser EXCEPT
                            ![userKey] = SortByIso(RowsAscending(weights[userKey]))]
              ELSE weightHistoryByUser
        /\ ops' = fetchCalendarMonthWeights(Goto(i, "quest_history:load"), displayMode, changed)
        /\ calendarReqIdRef' = NextReqId(displayMode, changed)
        /\ calendarLoading' = NextLoading(displayMode, changed)
        /\ UNCHANGED <<activeUser, progressByUser, completedQuestIdsByUser,
                       questHistoryByUser, rewardHistoryByUser, finalGoalWeightByUser,
                       periodGoalByUser, displayMode, calendarWeights, storeVars, now,
                       today, actions, ledger, sharedVars, pureVars>>

\* .order("created_at", { ascending: false }).limit(20) over rows held in
\* insertion order (created_at never decreases along them).
NewestFirst(rows) ==
    [n \in 1..Min2(Len(rows), TargetCount) |-> rows[Len(rows) + 1 - n]]

LoadQuestHistory(i, ok) ==
    LET userKey == ops[i].user
        questRows == NewestFirst(quest_history[userKey])
        questItems == IF ok THEN [n \in 1..Len(questRows) |->
                                    QuestItem(questRows[n].created_at, questRows[n].points)]
                      ELSE <<>>
    IN  /\ ops[i].pc = "quest_history:load"
        /\ questHistoryByUser' =
              [questHistoryByUser EXCEPT
                 ![userKey] = padTo20(questItems, QuestDummies(Len(questItems)))]
        /\ ops' = Goto(i, "reward_history:load")
        /\ UNCHANGED <<activeUser, progressByUser, weightHistoryByUser,
                       completedQuestIdsByUser, rewardHistoryByUser, finalGoalWeightByUser,
                       periodGoalByUser, displayMode, calendarWeights, calendarReqIdRef, calendarLoading,
                       storeVars, now, today, actions, ledger, sharedVars, pureVars>>

LoadRewardHistory(i, ok) ==
    LET userKey == ops[i].user
        rewardRows == NewestFirst(reward_history[userKey])
        rewardItems == IF ok THEN [n \in 1..Len(rewardRows) |->
                                     RewardItem(rewardRows[n].created_at, rewardRows[n].cost)]
                       ELSE <<>>
    IN  /\ ops[i].pc = "reward_history:load"
        /\ rewardHistoryByUser' =
              [rewardHistoryByUser EXCEPT
                 ![userKey] = padTo20(rewardItems, RewardDummies(Len(rewardItems)))]
        /\ ops' = Finish(i)
        /\ UNCHANGED <<activeUser, progressByUser, weightHistoryByUser,
                       completedQuestIdsByUser, questHistoryByUser, finalGoalWeightByUser,
                       periodGoalByUser, displayMode, calendarWeights, calendarReqIdRef, calendarLoading,
                       storeVars, now, today, actions, ledger, sharedVars, pureVars>>

\* The effect that runs loadLatest: on mount and when activeUser changes.
LoadOp(user) == [NewOp("load", user, "refresh:upsert") EXCEPT !.list = "quests"]

(***************************************************************************)
(* saveGoalsForActiveUser                                                  *)
(***************************************************************************)
\* The payload built by HomeView.submitGoals: final is Undefined and period
\* is NoGoal when the field is left out.
saveGoalsForActiveUser(final, period) ==
    LET userKey == activeUser
    IN  /\ actions < MaxActions
        /\ CanSpawn(ops, 1)
        /\ finalGoalWeightByUser' =
              IF final # Undefined
              THEN [finalGoalWeightByUser EXCEPT ![userKey] = final]
              ELSE finalGoalWeightByUser
        /\ periodGoalByUser' =
              IF period # NoGoal
              THEN [periodGoalByUser EXCEPT ![userKey] = period]
              ELSE periodGoalByUser
        /\ ops' = Spawn(ops, [NewOp("save", userKey, "save:ensure")
                                EXCEPT !.final = final, !.period = period])
        /\ actions' = actions + 1
        /\ UNCHANGED <<activeUser, progressByUser, weightHistoryByUser,
                       completedQuestIdsByUser, questHistoryByUser, rewardHistoryByUser,
                       displayMode, calendarWeights, calendarReqIdRef, calendarLoading, storeVars, now,
                       today, ledger, sharedVars, pureVars>>

\* A variant that starts the re-reads without awaiting the upserts.
AfterSaveEnsure_ReadAtOnce(i) == "save:readFinal"

AfterSaveEnsure(i) ==
    IF ops[i].final # Undefined THEN "save:final"
    ELSE IF ops[i].period # NoGoal THEN "save:period" ELSE "save:readFinal"

SaveEnsure(i, ok) ==
    /\ ops[i].pc = "save:ensure"
    /\ profiles' = IF ok THEN EnsureProfile(profiles, ops[i].user) ELSE profiles
    /\ ops' = Goto(i, AfterSaveEnsure(i))
    /\ LocalUnchanged
    /\ UNCHANGED <<weights, quest_history, reward_history, period_goals, now, today,
                   actions, ledger, sharedVars, pureVars>>

\* profiles.upsert({ user, final_goal_weight }, { onConflict: "user" })
SaveFinal(i, ok) ==
    LET u == ops[i].user
    IN  /\ ops[i].pc = "save:final"
        /\ profiles' =
              IF ok THEN [EnsureProfile(profiles, u) EXCEPT ![u].final_goal_weight = ops[i].final]
              ELSE profiles
        /\ ops' = Goto(i, IF ops[i].period # NoGoal THEN "save:period" ELSE "save:readFinal")
        /\ LocalUnchanged
        /\ UNCHANGED <<weights, quest_history, reward_history, period_goals, now, today,
                       actions, ledger, sharedVars, pureVars>>

SameRange(r, goal) == r.start_date = goal.start_date /\ r.end_date = goal.end_date

\* period_goals.upsert(..., { onConflict: "user,start_date,end_date" }), which
\* the foreign key to profiles and the check start_date <= end_date may reject.
SavePeriod(i, ok) ==
    LET u == ops[i].user
        goal == ops[i].period
    IN  /\ ops[i].pc = "save:period"
        /\ period_goals' =
              IF ok /\ profiles[u].exists /\ goal.start_date <= goal.end_date
              THEN [period_goals EXCEPT
                      ![u] = {r \in @ : ~SameRange(r, goal)} \cup {goal}]
              ELSE period_goals
        /\ ops' = Goto(i, "save:readFinal")
        /\ LocalUnchanged
        /\ UNCHANGED <<profiles, weights, quest_history, reward_history, now, today,
                       actions, ledger, sharedVars, pureVars>>

SaveReadFinal(i, ok) ==
    LET u == ops[i].user
        fg == IF profiles[u].exists THEN profiles[u].final_goal_weight ELSE Null
    IN  /\ ops[i].pc = "save:readFinal"
        /\ finalGoalWeightByUser' =
              IF ok THEN [finalGoalWeightByUser EXCEPT ![u] = fg] ELSE finalGoalWeightByUser
        /\ ops' = Goto(i, IF ops[i].period # NoGoal THEN "save:readExact" ELSE "save:readActive")
        /\ UNCHANGED <<activeUser, progressByUser, weightHistoryByUser,
                       completedQuestIdsByUser, questHistoryByUser, rewardHistoryByUser,
                       periodGoalByUser, displayMode, calendarWeights, calendarReqIdRef, calendarLoading,
                       storeVars, now, today, actions, ledger, sharedVars, pureVars>>

\* The row just saved, read back by its range; shown when it is found.
SaveReadExact(i, ok) ==
    LET u == ops[i].user
        exact == {r \in period_goals[u] : SameRange(r, ops[i].period)}
        found == ok /\ exact # {}
    IN  /\ ops[i].pc = "save:readExact"
        /\ periodGoalByUser' =
              IF found
              THEN [periodGoalByUser EXCEPT ![u] = GoalOfRow(CHOOSE r \in exact : TRUE)]
              ELSE periodGoalByUser
        /\ ops' = IF found THEN Finish(i) ELSE Goto(i, "save:readActive")
        /\ isGoalModalOpen' = IF found THEN FALSE ELSE isGoalModalOpen
        /\ UNCHANGED <<activeUser, progressByUser, weightHistoryByUser,
                       completedQuestIdsByUser, questHistoryByUser, rewardHistoryByUser,
                       finalGoalWeightByUser, displayMode, calendarWeights,
                       calendarReqIdRef, calendarLoading, storeVars, now, today, actions, ledger, listVars,
                       activeTab, isEditorOpen, isSaving, pureVars>>

\* Otherwise the goal that contains today is shown, or none: also when this
\* read fails.
SaveReadActive(i, ok) ==
    LET u == ops[i].user
    IN  /\ ops[i].pc = "save:readActive"
        /\ \E row \in (IF ok THEN EarliestEnd(ActiveRows(u)) ELSE {NoGoal}) :
              periodGoalByUser' = [periodGoalByUser EXCEPT ![u] = GoalOfRow(row)]
        /\ ops' = Finish(i)
        /\ isGoalModalOpen' = FALSE
        /\ UNCHANGED <<activeUser, progressByUser, weightHistoryByUser,
                       completedQuestIdsByUser, questHistoryByUser, rewardHistoryByUser,
                       finalGoalWeightByUser, displayMode, calendarWeights,
                       calendarReqIdRef, calendarLoading, storeVars, now, today, actions, ledger, listVars,
                       activeTab, isEditorOpen, isSaving, pureVars>>

\* HomeView.submitGoals builds the payload from the fields of the goal form
\* (a field that is empty or not a finite number is left out), awaits
\* onSaveGoals(payload) and closes the form: setIsGoalModalOpen(false) is the
\* last thing the steps SaveReadExact / SaveReadActive above do.  The button
\* is disabled while a save is running (savingGoals).
FinalOfForm(finalInput) ==
    IF finalInput # "" /\ IsFinite(NumberOf(finalInput)) THEN NumberOf(finalInput)
    ELSE Undefined

PeriodOfForm(ps, pe, pwInput) ==
    IF ps # NoIso /\ pe # NoIso /\ pwInput # "" /\ IsFinite(NumberOf(pwInput))
    THEN [start_date |-> ps, end_date |-> pe, target_weight |-> NumberOf(pwInput)]
    ELSE NoGoal

savingGoals == \E i \in Slots : ops[i].kind = "save"

submitGoals(finalInput, ps, pe, pwInput) ==
    /\ isGoalModalOpen
    /\ ~savingGoals
    /\ saveGoalsForActiveUser(FinalOfForm(finalInput), PeriodOfForm(ps, pe, pwInput))

\* The settings button of HomeView.
openGoalModal ==
    /\ activeTab = "home"
    /\ ~isGoalModalOpen
    /\ isGoalModalOpen' = TRUE
    /\ UNCHANGED <<activeTab, isEditorOpen, isSaving, listVars, localVars, storeVars,
                   ops, now, today, actions, ledger, pureVars>>

\* HomeView: the chart / calendar switch.
setDisplayMode(mode) ==
    /\ actions < MaxActions
    /\ mode # displayMode
    /\ CanSpawn(ops, IF mode = "calendar" THEN 1 ELSE 0)
    /\ displayMode' = mode
    /\ ops' = fetchCalendarMonthWeights(ops, mode, TRUE)
    /\ calendarReqIdRef' = NextReqId(mode, TRUE)
    /\ calendarLoading' = NextLoading(mode, TRUE)
    /\ actions' = actions + 1
    /\ UNCHANGED <<activeUser, progressByUser, weightHistoryByUser, completedQuestIdsByUser,
                   questHistoryByUser, rewardHistoryByUser, finalGoalWeightByUser,
                   periodGoalByUser, calendarWeights, storeVars, now, today, ledger,
                   sharedVars, pureVars>>

\* The user buttons of the header: setActiveUser(user).  The effect on
\* activeUser then runs loadLatest for that user, and HomeView fetches the
\* shown month again when the calendar is displayed.
\* The handlers in flight once the view that awaits them is unmounted: its
\* setters no longer change what is shown.
Unmounted(o) == [i \in Slots |-> [o[i] EXCEPT !.editor = FALSE]]

\* handleTabChange(tab): show the tab and refresh its list for the active
\* user. The tab bar is covered while a dialog is open.  The page renders
\* only the view of the tab shown: another tab mounts a new view, whose
\* isSaving starts false.
handleTabChange(tab) ==
    LET refresh == [NewOp("tab", activeUser, "list:refresh") EXCEPT !.list = ListOfTab(tab)]
        running == IF tab = activeTab THEN ops ELSE Unmounted(ops)
    IN  /\ actions < MaxActions
        /\ ~isEditorOpen /\ ~isGoalModalOpen
        /\ CanSpawn(ops, IF tab = "home" THEN 0 ELSE 1)
        /\ activeTab' = tab
        /\ isSaving' = (tab = activeTab /\ isSaving)
        /\ ops' = IF tab = "home" THEN running ELSE Spawn(running, refresh)
        /\ actions' = actions + 1
        /\ UNCHANGED <<localVars, storeVars, now, today, ledger, listVars, isEditorOpen,
                       isGoalModalOpen, pureVars>>

setActiveUser(user) ==
    LET calendar == displayMode = "calendar"
        month == [MonthFetchOp EXCEPT !.user = user]
    IN  /\ user # activeUser
        /\ actions < MaxActions
        /\ CanSpawn(ops, IF calendar THEN 2 ELSE 1)
        /\ activeUser' = user
        /\ ops' = IF calendar THEN Spawn(Spawn(ops, LoadOp(user)), month)
                  ELSE Spawn(ops, LoadOp(user))
        /\ calendarReqIdRef' = NextReqId(displayMode, TRUE)
        /\ calendarLoading' = NextLoading(displayMode, TRUE)
        /\ actions' = actions + 1
        /\ UNCHANGED <<progressByUser, weightHistoryByUser, completedQuestIdsByUser,
                       questHistoryByUser, rewardHistoryByUser, finalGoalWeightByUser,
                       periodGoalByUser, displayMode, calendarWeights, storeVars, now,
                       today, ledger, sharedVars, pureVars>>

\* Time passes.
Tick ==
    /\ now < MaxNow
    /\ now' = now + 1
    /\ UNCHANGED <<localVars, storeVars, ops, today, actions, ledger, sharedVars, pureVars>>

(***************************************************************************)
(* Initial states                                                          *)
(***************************************************************************)
NoCall == [fn |-> "none"]

\* The shared lists and the views as constructed: the seed lists, the home
\* tab, every dialog closed.
ViewsConstructed ==
    /\ questDefinitions = initialQuestDefinitions
    /\ rewardDefinitions = initialRewardDefinitions
    /\ wishes = initialWishes
    /\ activeTab = "home"
    /\ isEditorOpen = FALSE
    /\ isSaving = FALSE
    /\ isGoalModalOpen = FALSE

EmptyLists ==
    /\ userColumn = FALSE
    /\ quests = <<>>
    /\ rewards = <<>>
    /\ wishesTable = <<>>

\* The page as constructed (useState initial values).
Constructed ==
    /\ activeUser = "jiiji"
    /\ progressByUser = [u \in Users |-> [points |-> 0]]
    /\ weightHistoryByUser = [u \in Users |-> <<>>]
    /\ completedQuestIdsByUser = [u \in Users |-> {}]
    /\ questHistoryByUser = [u \in Users |-> <<>>]
    /\ rewardHistoryByUser = [u \in Users |-> <<>>]
    /\ finalGoalWeightByUser = [u \in Users |-> Null]
    /\ periodGoalByUser = [u \in Users |-> NoGoal]
    /\ displayMode = "chart"
    /\ calendarWeights = <<>>
    /\ calendarReqIdRef = 0
    /\ calendarLoading = FALSE
    /\ now = 0
    /\ today = 10
    /\ actions = 0
    /\ ledger = [u \in Users |-> NewLedger]

NothingInFlight == ops = [i \in Slots |-> IdleOp]

\* The mount effect has called loadLatest for the active user.
Mounted == ops = [i \in Slots |-> IF i = 1 THEN LoadOp(activeUser) ELSE IdleOp]

EmptyStore ==
    /\ profiles = [u \in Users |-> NoProfile]
    /\ weights = [u \in Users |-> {}]
    /\ quest_history = [u \in Users |-> <<>>]
    /\ reward_history = [u \in Users |-> <<>>]
    /\ period_goals = [u \in Users |-> {}]

(***************************************************************************)
(* Bounds and input domains of the pure helpers                            *)
(***************************************************************************)
MaxSeriesLen == 2
MaxKg == 71
MaxCmpLen == 31

BoundedSeq(S, n) == UNION {[1..k -> S] : k \in 0..n}

\* 2024-01-01, -05, -10, -20 as day numbers.
BaselineDates == {1, 5, 10, 20}
BaselineSamples == [isoDate : BaselineDates \cup {NoIso}, weight : {68, 70, NaN}]

Kg == 65..MaxKg

\* Series of length len whose dates advance by gap days and whose weights
\* follow a repeating pattern (pattern 0: all equal).
CmpSeries(len, gap, pattern) ==
    [i \in 1..len |-> [isoDate |-> gap * i, weight |-> 70 + ((i * pattern) % 3)]]

CmpInputs == {CmpSeries(len, gap, pattern) : len \in 0..MaxCmpLen, gap \in 1..2, pattern \in 0..2}

(***************************************************************************)
(* Pure helpers: a call is drawn, then the helper runs                     *)
(***************************************************************************)
BaselineCalls ==
    [fn : {"findBaselineWeight"}, weightHistory : BoundedSeq(BaselineSamples, MaxSeriesLen),
     startIso : BaselineDates, endIso : BaselineDates]

ProgressCalls ==
    [fn : {"periodProgress"}, currentWeight : Kg \cup {0},
     periodBaseline : Kg \cup {Null}, goal : Kg \cup {Null, NaN}]

ComparisonCalls ==
    {[fn |-> "calculateComparison", weightHistory |-> h,
      currentWeight |-> currentWeightOf(h), daysAgo |-> n] :
        h \in CmpInputs, n \in ComparisonOffsets}

ReturnBaseline ==
    /\ call.fn = "findBaselineWeight" /\ ret = Pending
    /\ ret' = Returned(findBaselineWeight(call.weightHistory, call.startIso, call.endIso))
    /\ UNCHANGED <<call, appVars>>

ReturnProgress ==
    /\ call.fn = "periodProgress" /\ ret = Pending
    /\ ret' = Returned(periodProgress(call.currentWeight, call.periodBaseline, call.goal))
    /\ UNCHANGED <<call, appVars>>

ReturnComparison ==
    /\ call.fn = "calculateComparison" /\ ret = Pending
    /\ ret' = Returned(calculateComparison(call.weightHistory, call.currentWeight, call.daysAgo))
    /\ UNCHANGED <<call, appVars>>


InitBaseline ==
    /\ Constructed /\ ViewsConstructed /\ NothingInFlight /\ EmptyStore /\ EmptyLists
    /\ call \in BaselineCalls /\ ret = Pending

SpecBaseline == InitBaseline /\ [][ReturnBaseline]_vars
InitProgress ==
    /\ Constructed /\ ViewsConstructed /\ NothingInFlight /\ EmptyStore /\ EmptyLists
    /\ call \in ProgressCalls /\ ret = Pending

SpecProgress == InitProgress /\ [][ReturnProgress]_vars
InitComparison ==
    /\ Constructed /\ ViewsConstructed /\ NothingInFlight /\ EmptyStore /\ EmptyLists
    /\ call \in ComparisonCalls /\ ret = Pending

SpecComparison == InitComparison /\ [][ReturnComparison]_vars

(***************************************************************************)
(* C4: findBaselineWeight returns the weight picked by the first matching  *)
(* rule: a sample dated startIso; else the latest sample before startIso;  *)
(* else the earliest sample within [startIso, endIso]; else the earliest   *)
(* sample after startIso; and null when no rule matches. A lone sample     *)
(* after the start and within the period is the baseline.                  *)
(***************************************************************************)
C4_BaselineRuleOrder ==
    (call.fn = "findBaselineWeight" /\ ~ret.pending) =>
        LET h == call.weightHistory
            a == call.startIso
            b == call.endIso
            V == {i \in 1..Len(h) : ValidSample(h[i])}
            onStart == {i \in V : h[i].isoDate = a}
            before == {i \in V : h[i].isoDate < a}
            within == {i \in V : h[i].isoDate >= a /\ h[i].isoDate <= b}
            after == {i \in V : h[i].isoDate > a}
            latest(I) == {i \in I : \A j \in I : h[j].isoDate <= h[i].isoDate}
            earliest(I) == {i \in I : \A j \in I : h[j].isoDate >= h[i].isoDate}
            W(I) == {h[i].weight : i \in I}
        IN  /\ IF onStart # {} THEN ret.value \in W(onStart)
               ELSE IF before # {} THEN ret.value \in W(latest(before))
               ELSE IF within # {} THEN ret.value \in W(earliest(within))
               ELSE IF after # {} THEN ret.value \in W(earliest(after))
               ELSE ret.value = Null
            /\ (Len(h) = 1 /\ V = {1} /\ h[1].isoDate > a /\ h[1].isoDate <= b)
                   => ret.value = h[1].weight

\* Rule 2 decides between two samples before the start.
C4_Witness ==
    /\ call.fn = "findBaselineWeight" /\ ~ret.pending
    /\ call.weightHistory = <<[isoDate |-> 5, weight |-> 68], [isoDate |-> 1, weight |-> 70]>>
    /\ call.startIso = 10 /\ call.endIso = 20
    /\ ret.value = 68

(***************************************************************************)
(* C5 (as amended): for the series [(2024-01-01, 70), (2024-01-10, 68)],   *)
(* findBaseline(series, 2024-01-05, 2024-01-20) returns 70, the latest     *)
(* sample before the start (rule 2).                                       *)
(***************************************************************************)
C5_Call ==
    [fn |-> "findBaselineWeight",
     weightHistory |-> <<[isoDate |-> 1, weight |-> 70], [isoDate |-> 10, weight |-> 68]>>,
     startIso |-> 5, endIso |-> 20]

C5_ExampleReturns70 == (call = C5_Call /\ ~ret.pending) => ret.value = 70

\* The claim as stated: the example returns 68.
C5_ExampleReturns68 == (call = C5_Call /\ ~ret.pending) => ret.value = 68

C5_Witness == call = C5_Call /\ ~ret.pending /\ ret.value = 70

(***************************************************************************)
(* C6: periodProgress is binary for a zero-width goal (1 when the current  *)
(* weight is the target, else 0) and otherwise the quotient                *)
(* (current - baseline) / (target - baseline) clamped to [0, 1]; so the    *)
(* ratio always lies in [0, 1]. (70,70,70) -> 1, (71,70,70) -> 0,          *)
(* (68,70,65) -> 0.4.                                                      *)
(***************************************************************************)
C6_ProgressRatio ==
    (call.fn = "periodProgress" /\ ~ret.pending /\ ~ret.value.null) =>
        LET r == ret.value.ratio
            n == call.currentWeight - call.periodBaseline
            d == call.goal - call.periodBaseline
        IN  /\ r[2] > 0 /\ 0 <= r[1] /\ r[1] <= r[2]
            /\ d = 0 => r[1] = (IF call.currentWeight = call.goal THEN r[2] ELSE 0)
            /\ (d # 0 /\ n * d <= 0) => r[1] = 0
            /\ (d # 0 /\ n * d >= d * d) => r[1] = r[2]
            /\ (d # 0 /\ n * d > 0 /\ n * d < d * d) => r[1] * d = n * r[2]
            /\ (call.currentWeight = 70 /\ call.periodBaseline = 70 /\ call.goal = 70)
                   => r[1] = r[2]
            /\ (call.currentWeight = 71 /\ call.periodBaseline = 70 /\ call.goal = 70)
                   => r[1] = 0
            /\ (call.currentWeight = 68 /\ call.periodBaseline = 70 /\ call.goal = 65)
                   => 10 * r[1] = 4 * r[2]

C6_Witness ==
    /\ call.fn = "periodProgress" /\ ~ret.pending /\ ~ret.value.null
    /\ call.currentWeight = 68 /\ call.periodBaseline = 70 /\ call.goal = 65
    /\ 10 * ret.value.ratio[1] = 4 * ret.value.ratio[2]

(***************************************************************************)
(* C7: a comparison for offset n has data exactly when the series holds at *)
(* least n + 1 samples, and then diff = current - series[len - 1 - n],     *)
(* counted by position from the end; otherwise it reports no data, which   *)
(* differs from a diff of zero (length 3, offset 7: no data).              *)
(***************************************************************************)
C7_Comparison ==
    (call.fn = "calculateComparison" /\ ~ret.pending) =>
        LET h == call.weightHistory
            n == call.daysAgo
        IN  /\ ret.value.hasData <=> Len(h) >= n + 1
            /\ ret.value.hasData => ret.value.diff = call.currentWeight - h[Len(h) - n].weight
            /\ Len(h) < n + 1 => ret.value # [diff |-> 0, hasData |-> TRUE]
            /\ (Len(h) = 3 /\ n = 7) => ~ret.value.hasData

\* A month comparison with data over a series with gaps, and no change.
C7_Witness ==
    /\ call.fn = "calculateComparison" /\ ~ret.pending
    /\ call.daysAgo = 30 /\ Len(call.weightHistory) = 31
    /\ call.weightHistory[31].isoDate = 62
    /\ ret.value = [diff |-> 0, hasData |-> TRUE]



(***************************************************************************)
(* Points: quest completions, redemptions and weight records against the   *)
(* stored balances, from a page that has loaded from a fresh store.  The   *)
(* calls on the weights table succeed here; every other call may fail.     *)
(***************************************************************************)
InitLedger ==
    /\ now = 0
    /\ activeUser = "jiiji"
    /\ progressByUser = [u \in Users |-> [points |-> 0]]
    /\ weightHistoryByUser = [u \in Users |-> <<>>]
    /\ completedQuestIdsByUser = [u \in Users |-> {}]
    /\ questHistoryByUser =
          [u \in Users |-> IF u = activeUser THEN padTo20(<<>>, QuestDummies(0)) ELSE <<>>]
    /\ rewardHistoryByUser =
          [u \in Users |-> IF u = activeUser THEN padTo20(<<>>, RewardDummies(0)) ELSE <<>>]
    /\ finalGoalWeightByUser = [u \in Users |-> Null]
    /\ periodGoalByUser = [u \in Users |-> NoGoal]
    /\ displayMode = "chart"
    /\ calendarWeights = <<>>
    /\ calendarReqIdRef = 0
    /\ calendarLoading = FALSE
    /\ ops = [i \in Slots |-> IdleOp]
    /\ today = 10
    /\ actions = 0
    /\ ledger = [u \in Users |-> NewLedger]
    /\ profiles = [u \in Users |-> NewProfile]
    /\ weights = [u \in Users |-> {}]
    /\ quest_history = [u \in Users |-> <<>>]
    /\ reward_history = [u \in Users |-> <<>>]
    /\ period_goals = [u \in Users |-> {}]
    /\ ViewsConstructed
    /\ EmptyLists
    /\ call = NoCall
    /\ ret = Pending

NextLedger ==
    \/ \E questId \in QuestIds : handleCompleteQuest(questId)
    \/ \E rewardId \in RewardIds : handleRedeemReward(rewardId)
    \/ handleWeightSubmit(70, today)
    \/ \E i \in Slots, ok \in BOOLEAN :
          \/ QuestHistoryInsert(i, ok)
          \/ RewardHistoryInsert(i, ok)
          \/ ApplyDeltaUpsert(i, ok)
          \/ ApplyDeltaSelect(i, ok)
          \/ ApplyDeltaUpdate(i, ok)
          \/ RefreshUpsert(i, ok)
          \/ RefreshSelect(i, ok)
    \/ \E i \in Slots :
          \/ WeightsSelect(i, TRUE)
          \/ WeightsWrite(i, TRUE)
          \/ WeightsRefetch(i, TRUE)

SpecLedger == InitLedger /\ [][NextLedger]_vars

\* C1 (as stated): every applyDelta(user, delta) writes back
\* max(0, b + delta), where b is the balance the store held when the handler
\* read it, and every stored balance is >= 0.
C1_WritesClampedStoredBalance ==
    /\ \A i \in Slots :
          ops[i].pc = "applyDelta:update"
             => ops[i].next = Max2(0, ops[i].held + ops[i].delta)
    /\ \A u \in Users : profiles[u].points >= 0

RecordDates == {5, 40}
RecordKg == 70..(69 + MaxActions)

\* The weight entered by the next record: one not entered before.
NextKg == 70 + actions

StoredSeries == {{}, {[recorded_at |-> 5, weight |-> 68]}}

InitWeights ==
    /\ now = 0
    /\ today = 10
    /\ activeUser = "jiiji"
    /\ profiles = [u \in Users |-> NewProfile]
    /\ weights \in {[u \in Users |-> IF u = "jiiji" THEN rows ELSE {}] : rows \in StoredSeries}
    /\ quest_history = [u \in Users |-> <<>>]
    /\ reward_history = [u \in Users |-> <<>>]
    /\ period_goals = [u \in Users |-> {}]
    /\ progressByUser = [u \in Users |-> [points |-> 0]]
    /\ weightHistoryByUser = [u \in Users |-> SortByIso(RowsAscending(weights[u]))]
    /\ completedQuestIdsByUser = [u \in Users |-> {}]
    /\ questHistoryByUser =
          [u \in Users |-> IF u = activeUser THEN padTo20(<<>>, QuestDummies(0)) ELSE <<>>]
    /\ rewardHistoryByUser =
          [u \in Users |-> IF u = activeUser THEN padTo20(<<>>, RewardDummies(0)) ELSE <<>>]
    /\ finalGoalWeightByUser = [u \in Users |-> Null]
    /\ periodGoalByUser = [u \in Users |-> NoGoal]
    /\ displayMode \in {"chart", "calendar"}
    /\ calendarWeights =
          IF displayMode = "calendar"
          THEN SortByIso(RowsAscending({r \in weights[activeUser] : InMonth(r.recorded_at)}))
          ELSE <<>>
    /\ calendarReqIdRef = IF displayMode = "calendar" THEN 1 ELSE 0
    /\ calendarLoading = FALSE
    /\ ops = [i \in Slots |-> IdleOp]
    /\ actions = 0
    /\ ledger = [u \in Users |-> NewLedger]
    /\ ViewsConstructed
    /\ EmptyLists
    /\ call = NoCall
    /\ ret = Pending

NextWeights ==
    \/ \E weight \in {NextKg}, iso \in RecordDates : handleWeightSubmit(weight, iso)
    \/ \E mode \in {"chart", "calendar"} : setDisplayMode(mode)
    \/ \E i \in Slots, ok \in BOOLEAN :
          \/ WeightsSelect(i, ok)
          \/ WeightsWrite(i, ok)
          \/ WeightsRefetch(i, ok)
          \/ MonthFetchReturn(i, ok)
    \/ \E i \in Slots :
          \/ ApplyDeltaUpsert(i, TRUE)
          \/ ApplyDeltaSelect(i, TRUE)
          \/ ApplyDeltaUpdate(i, TRUE)
          \/ RefreshUpsert(i, TRUE)
          \/ RefreshSelect(i, TRUE)

SpecWeights == InitWeights /\ [][NextWeights]_vars

\* The list holds exactly one sample for the date, with the given weight.
OneSample(list, iso, weight) ==
    /\ Cardinality({n \in 1..Len(list) : list[n].isoDate = iso}) = 1
    /\ \A n \in 1..Len(list) : list[n].isoDate = iso => list[n].weight = weight

\* Ascending by date with no date twice.
StrictlyAscending(list) ==
    \A m, n \in 1..Len(list) : m < n => list[m].isoDate < list[n].isoDate

HistoryCounts == {0, 1, 5, 20, 21}
HistoryGaps == {0, 2}

\* k rows in insertion order, the newest created at hour 0.
StoredQuestHistory(k, gap) ==
    [n \in 1..k |-> [created_at |-> -(gap * (k - n)), points |-> 10 * (1 + (n % 3))]]
StoredRewardHistory(k, gap) ==
    [n \in 1..k |-> [created_at |-> -(gap * (k - n)), cost |-> 10 * (1 + (n % 3))]]

InitHistory ==
    /\ Constructed
    /\ ViewsConstructed
    /\ Mounted
    /\ \E k \in HistoryCounts, gap \in HistoryGaps :
          /\ quest_history =
                [u \in Users |-> IF u = "jiiji" THEN StoredQuestHistory(k, gap) ELSE <<>>]
          /\ reward_history =
                [u \in Users |-> IF u = "jiiji" THEN StoredRewardHistory(k, gap) ELSE <<>>]
    /\ profiles = [u \in Users |-> IF u = "jiiji" THEN NewProfile ELSE NoProfile]
    /\ weights = [u \in Users |-> {}]
    /\ period_goals = [u \in Users |-> {}]
    /\ EmptyLists
    /\ call = NoCall
    /\ ret = Pending

NextHistory ==
    \/ Tick
    \/ \E i \in Slots, res \in ScopedResults : RefreshScoped(i, res)
    \/ \E i \in Slots, ok \in BOOLEAN :
          \/ RefreshUpsert(i, ok)
          \/ RefreshSelect(i, ok)
          \/ RefreshUnscoped(i, ok)
          \/ LoadFinalGoal(i, ok)
          \/ LoadActiveGoal(i, ok)
          \/ LoadLatestGoal(i, ok)
          \/ LoadWeights(i, ok)
          \/ LoadQuestHistory(i, ok)
          \/ LoadRewardHistory(i, ok)

SpecHistory == InitHistory /\ [][NextHistory]_vars

\* The displayed list is the k most recent rows, newest first and untagged,
\* followed by placeholders up to TargetCount entries.
PaddedQuestHistory(list, rows) ==
    LET k == Min2(Len(rows), TargetCount)
    IN  /\ Len(list) = TargetCount
        /\ \A n \in 1..k :
              list[n] = QuestItem(rows[Len(rows) + 1 - n].created_at,
                                  rows[Len(rows) + 1 - n].points)
        /\ \A n \in 1..(k - 1) : list[n].occurredAt >= list[n + 1].occurredAt
        /\ \A n \in (k + 1)..TargetCount : list[n].isDummy

PaddedRewardHistory(list, rows) ==
    LET k == Min2(Len(rows), TargetCount)
    IN  /\ Len(list) = TargetCount
        /\ \A n \in 1..k :
              list[n] = RewardItem(rows[Len(rows) + 1 - n].created_at,
                                   rows[Len(rows) + 1 - n].cost)
        /\ \A n \in 1..(k - 1) : list[n].occurredAt >= list[n + 1].occurredAt
        /\ \A n \in (k + 1)..TargetCount : list[n].isDummy

\* C8: a history load that yields the k most recent stored rows (none when
\* the read fails) leaves the user's displayed quest (reward) history with
\* exactly 20 entries: those k rows first, newest first and not tagged
\* isDummy, then 20 - k placeholders, each tagged isDummy.
C8_LoadedHistoryIsPadded ==
    [][\A i \in Slots, ok \in BOOLEAN :
         /\ LoadQuestHistory(i, ok)
               => PaddedQuestHistory(questHistoryByUser'[ops[i].user],
                                     IF ok THEN quest_history[ops[i].user] ELSE <<>>)
         /\ LoadRewardHistory(i, ok)
               => PaddedRewardHistory(rewardHistoryByUser'[ops[i].user],
                                      IF ok THEN reward_history[ops[i].user] ELSE <<>>)]_vars

\* The load has finished on a store with 5 rows of each kind: 5 real entries
\* and then placeholders are displayed.
C8_Witness ==
    /\ NothingInFlight
    /\ Len(quest_history["jiiji"]) = 5 /\ Len(reward_history["jiiji"]) = 5
    /\ Len(questHistoryByUser["jiiji"]) = TargetCount
    /\ ~questHistoryByUser["jiiji"][5].isDummy /\ questHistoryByUser["jiiji"][6].isDummy
    /\ Len(rewardHistoryByUser["jiiji"]) = TargetCount
    /\ ~rewardHistoryByUser["jiiji"][5].isDummy /\ rewardHistoryByUser["jiiji"][6].isDummy

\* C9 (as stated): in every displayed history, every placeholder carries a
\* timestamp strictly older than every real entry of the same list.
C9_PlaceholdersOlderThanReal ==
    \A u \in Users :
        /\ \A m, n \in 1..Len(questHistoryByUser[u]) :
              ~questHistoryByUser[u][m].isDummy /\ questHistoryByUser[u][n].isDummy
                 => questHistoryByUser[u][n].occurredAt < questHistoryByUser[u][m].occurredAt
        /\ \A m, n \in 1..Len(rewardHistoryByUser[u]) :
              ~rewardHistoryByUser[u][m].isDummy /\ rewardHistoryByUser[u][n].isDummy
                 => rewardHistoryByUser[u][n].occurredAt < rewardHistoryByUser[u][m].occurredAt

(***************************************************************************)
(* Goals: saves of a period goal (and a final goal) by a user whose page   *)
(* has loaded a stored period goal A.                                      *)
(***************************************************************************)
\* A contains today or has ended; B contains today, lies ahead, or has its
\* dates the wrong way round.
StoredGoals ==
    {[start_date |-> 5, end_date |-> 15, target_weight |-> 68],
     [start_date |-> 1, end_date |-> 4, target_weight |-> 69]}
SavedGoals ==
    {[start_date |-> 8, end_date |-> 20, target_weight |-> 67],
     [start_date |-> 20, end_date |-> 30, target_weight |-> 66],
     [start_date |-> 12, end_date |-> 11, target_weight |-> 66]}
SavedFinalGoals == {Undefined, 65}

InitGoals ==
    /\ now = 0
    /\ today = 10
    /\ activeUser = "jiiji"
    /\ profiles = [u \in Users |-> NewProfile]
    /\ weights = [u \in Users |-> {}]
    /\ quest_history = [u \in Users |-> <<>>]
    /\ reward_history = [u \in Users |-> <<>>]
    /\ \E A \in StoredGoals :
          /\ period_goals = [u \in Users |-> IF u = "jiiji" THEN {A} ELSE {}]
          /\ periodGoalByUser = [u \in Users |-> IF u = "jiiji" THEN A ELSE NoGoal]
    /\ finalGoalWeightByUser = [u \in Users |-> Null]
    /\ progressByUser = [u \in Users |-> [points |-> 0]]
    /\ weightHistoryByUser = [u \in Users |-> <<>>]
    /\ completedQuestIdsByUser = [u \in Users |-> {}]
    /\ questHistoryByUser =
          [u \in Users |-> IF u = activeUser THEN padTo20(<<>>, QuestDummies(0)) ELSE <<>>]
    /\ rewardHistoryByUser =
          [u \in Users |-> IF u = activeUser THEN padTo20(<<>>, RewardDummies(0)) ELSE <<>>]
    /\ displayMode = "chart"
    /\ calendarWeights = <<>>
    /\ calendarReqIdRef = 0
    /\ calendarLoading = FALSE
    /\ ops = [i \in Slots |-> IdleOp]
    /\ actions = 0
    /\ ledger = [u \in Users |-> NewLedger]
    /\ ViewsConstructed
    /\ EmptyLists
    /\ call = NoCall
    /\ ret = Pending

NextGoals ==
    \/ \E final \in SavedFinalGoals, period \in SavedGoals \cup {NoGoal} :
          saveGoalsForActiveUser(final, period)
    \/ \E i \in Slots, ok \in BOOLEAN :
          \/ SaveEnsure(i, ok)
          \/ SaveFinal(i, ok)
          \/ SavePeriod(i, ok)
          \/ SaveReadFinal(i, ok)
          \/ SaveReadExact(i, ok)
          \/ SaveReadActive(i, ok)

SpecGoals == InitGoals /\ [][NextGoals]_vars

\* C10 (as stated): when a user with a stored period goal saves a period
\* goal B, the goal displayed for that user is B as soon as the save is
\* invoked, and it is B when the save and its re-fetch have settled.
C10_SavedGoalStaysDisplayed ==
    [][/\ \A final \in SavedFinalGoals, B \in SavedGoals :
             saveGoalsForActiveUser(final, B) /\ period_goals[activeUser] # {}
                => periodGoalByUser'[activeUser] = B
       /\ \A i \in Slots, ok \in BOOLEAN :
             /\ SaveReadExact(i, ok) \/ SaveReadActive(i, ok)
             /\ ops[i].period # NoGoal
             /\ ops'[i] = IdleOp
             => periodGoalByUser'[ops[i].user] = ops[i].period]_vars

(***************************************************************************)
(* Shared lists: the user works on the list of one tab (quests, rewards or *)
(* wishes) whose table holds one row; the page shows either the seed list  *)
(* (nothing loaded yet) or the loaded list.                                *)
(***************************************************************************)
StoredList ==
    <<Row(Uuid(0), "walk", 50, FALSE, IF userColumn THEN "jiiji" ELSE NoUser)>>

FormTitles == {" ", "run"}
FormPoints == {"30", "x"}

InitLists ==
    /\ Constructed
    /\ NothingInFlight
    /\ EmptyStore
    /\ activeTab \in {"quest", "reward", "dream"}
    /\ isEditorOpen = FALSE
    /\ isSaving = FALSE
    /\ isGoalModalOpen = FALSE
    /\ userColumn \in BOOLEAN
    /\ quests = IF activeTab = "quest" THEN StoredList ELSE <<>>
    /\ rewards = IF activeTab = "reward" THEN StoredList ELSE <<>>
    /\ wishesTable = IF activeTab = "dream" THEN StoredList ELSE <<>>
    /\ \E loaded \in BOOLEAN :
          /\ questDefinitions = IF loaded /\ activeTab = "quest" THEN ItemsOfRows(quests)
                                ELSE initialQuestDefinitions
          /\ rewardDefinitions = IF loaded /\ activeTab = "reward" THEN ItemsOfRows(rewards)
                                 ELSE initialRewardDefinitions
          /\ wishes = IF loaded /\ activeTab = "dream" THEN ItemsOfRows(wishesTable)
                      ELSE initialWishes
    /\ call = NoCall
    /\ ret = Pending

Shown == Local(ListOfTab(activeTab))

NextLists ==
    \/ openEditor
    \/ \E title \in FormTitles, pointsInput \in FormPoints :
          \/ submit(NoId, title, pointsInput)
          \/ \E n \in 1..Len(Shown) : submit(Shown[n].id, title, pointsInput)
    \/ \E n \in 1..Len(Shown) : confirmDelete(Shown[n].id)
    \/ \E title \in FormTitles : onCreateWish(title)
    \/ \E n \in 1..Len(wishes), title \in FormTitles : onUpdateWish(wishes[n].id, title)
    \/ \E n \in 1..Len(wishes) : onDeleteWish(wishes[n].id)
    \/ \E n \in 1..Len(wishes), ran \in BOOLEAN : onToggleWish(wishes[n].id, ran)
    \/ \E i \in Slots, res \in ScopedResults :
          \/ RefreshScoped(i, res)
          \/ InsertScoped(i, res)
          \/ UpdateScoped(i, res)
          \/ DeleteScoped(i, res)
    \/ \E i \in Slots, ok \in BOOLEAN :
          \/ RefreshUnscoped(i, ok)
          \/ InsertUnscoped(i, ok)
          \/ UpdateUnscoped(i, ok)
          \/ DeleteUnscoped(i, ok)

SpecLists == InitLists /\ [][NextLists]_vars


UnscopedPcs ==
    {"list:refreshUnscoped", "list:insertUnscoped", "list:updateUnscoped",
     "list:deleteUnscoped"}

\* The error messages that report a missing user column.
MissingUserColumn == {"userColumnSchemaCache", "userColumnDoesNotExist"}

ScopedCall(i, res) ==
    RefreshScoped(i, res) \/ InsertScoped(i, res) \/ UpdateScoped(i, res)
       \/ DeleteScoped(i, res)

UnscopedCall(i, ok) ==
    RefreshUnscoped(i, ok) \/ InsertUnscoped(i, ok) \/ UpdateUnscoped(i, ok)
       \/ DeleteUnscoped(i, ok)

\* The lists of L after a step.
LocalAfter(L) ==
    CASE L = "quests" -> questDefinitions'
      [] L = "rewards" -> rewardDefinitions'
      [] OTHER -> wishes'

StoredAfter(L) ==
    CASE L = "quests" -> quests'
      [] L = "rewards" -> rewards'
      [] OTHER -> wishesTable'

HasId(rows, id) == \E n \in 1..Len(rows) : rows[n].id = id

\* C13: for every store call on a shared list (the select of a refresh, the
\* insert of a create, the update of an update or a toggle, the delete), the
\* unscoped form is attempted exactly when the scoped attempt failed with a
\* missing-user-column error, and once at most; a create whose unscoped
\* insert succeeds goes on to refresh and adds no local entry; a scoped
\* attempt that fails with any other error is not retried, changes nothing in
\* the store, and on a create adds the local entry instead of refreshing.
C13_UnscopedOnlyAfterMissingColumn ==
    /\ [](\A i \in Slots : ops[i].unscoped <= 1)
    /\ [][\A i \in Slots :
            /\ \A res \in ScopedResults :
                  ScopedCall(i, res) =>
                     /\ (ops'[i].pc \in UnscopedPcs) <=> (res \in MissingUserColumn)
                     /\ res \in MissingUserColumn =>
                           ops'[i].pc = ops[i].pc \o "Unscoped" /\ UNCHANGED listVars
                     /\ res = "other" =>
                           /\ StoredListsUnchanged
                           /\ ops[i].pc = "list:refresh" => LocalListsUnchanged
                           /\ ops[i].kind = "create" /\ ops[i].pc = "list:insert" =>
                                 /\ ops'[i] = IdleOp
                                 /\ LocalAfter(ops[i].list) = <<LocalEntry(i)>> \o Local(ops[i].list)
            /\ \A ok \in BOOLEAN :
                  UnscopedCall(i, ok) =>
                     /\ ops[i].unscoped = 0
                     /\ ops'[i].pc \notin UnscopedPcs
                     /\ ok /\ ops[i].kind = "create" /\ ops[i].pc = "list:insertUnscoped" =>
                           /\ ops'[i].pc = "list:refresh"
                           /\ LocalListsUnchanged
                           /\ HasId(StoredAfter(ops[i].list), Uuid(ops[i].born))
            /\ ops'[i].pc \in UnscopedPcs /\ ops'[i].pc # ops[i].pc =>
                  \E res \in MissingUserColumn : ScopedCall(i, res)]_vars

\* A create whose scoped insert failed for the missing user column and
\* whose unscoped insert succeeded: the row is stored, the handler is about
\* to refresh, and no local entry was added.
C13_Witness ==
    \E i \in Slots :
        /\ ops[i].kind = "create"
        /\ ops[i].pc = "list:refresh"
        /\ ops[i].unscoped = 1
        /\ HasId(StoredRows(ops[i].list), Uuid(ops[i].born))
        /\ \A n \in 1..Len(Local(ops[i].list)) : Local(ops[i].list)[n].id.n # ops[i].born

\* The last insert attempt of a handler: the scoped insert unless it reported
\* the missing user column, the unscoped insert otherwise.
InsertSettled(i, inserted) ==
    \/ \E res \in {"ok", "other"} : InsertScoped(i, res) /\ inserted = (res = "ok")
    \/ InsertUnscoped(i, inserted)

\* C14: a create whose insert succeeds stores the row, adds no local entry and
\* goes on to refresh the list from the store; a create whose insert fails
\* puts exactly one entry with the entered title and an id that is not a
\* store id at the head of the local list, stores nothing and ends without a
\* refresh.
C14_CreateRefreshesOrKeepsLocalEntry ==
    [][\A i \in Slots :
          ops[i].kind = "create" =>
             LET L == ops[i].list
             IN  /\ InsertSettled(i, TRUE) =>
                       /\ ops'[i].pc = "list:refresh"
                       /\ LocalAfter(L) = Local(L)
                       /\ Len(StoredAfter(L)) = Len(StoredRows(L)) + 1
                       /\ StoredAfter(L)[Len(StoredAfter(L))].title = ops[i].title
                 /\ InsertSettled(i, FALSE) =>
                       /\ ops'[i] = IdleOp
                       /\ Len(LocalAfter(L)) = Len(Local(L)) + 1
                       /\ Tail(LocalAfter(L)) = Local(L)
                       /\ Head(LocalAfter(L)).title = ops[i].title
                       /\ Head(LocalAfter(L)).id.prefix # ""
                       /\ ~HasId(Local(L), Head(LocalAfter(L)).id)
                       /\ StoredAfter(L) = StoredRows(L)]_vars

\* A create has failed: its entry, with a local id, heads the local list and
\* the table holds what it held.
C14_Witness ==
    \E L \in Lists :
        /\ Len(Local(L)) > 1
        /\ Head(Local(L)).id.prefix = LocalPrefix(L)
        /\ Head(Local(L)).title = "run"
        /\ StoredRows(L) = StoredList
        /\ \A i \in Slots : ops[i] = IdleOp

\* The update the user invokes on the item id of the shown list: the editor's
\* submit on the quest and reward tabs, and on the dream tab, where it calls
\* onUpdateWish.
UpdateInvoked(id, title, pointsInput) ==
    \/ submit(id, title, pointsInput) /\ canSubmit(title, pointsInput)
    \/ onUpdateWish(id, title) /\ canSubmit(title, "") /\ pointsInput = "30"

UpdateCalls == {"list:update", "list:updateUnscoped"}

\* C15: an update, with a valid title, of an item whose id is not a store id
\* applies the new title to that item of the local list at once and issues a
\* store insert carrying the new fields; the handler never issues a store
\* update for it, and a successful insert adds a row and leaves the stored
\* rows as they were.
C15_UpdateOfLocalItemInserts ==
    /\ [](\A i \in Slots :
             ops[i].kind = "update" /\ ops[i].id.prefix # "" => ops[i].pc \notin UpdateCalls)
    /\ [][/\ \A n \in 1..Len(Shown), title \in FormTitles, pointsInput \in FormPoints :
                LET L == ListOfTab(activeTab)
                    id == Shown[n].id
                IN  UpdateInvoked(id, title, pointsInput) /\ id.prefix # "" =>
                       /\ Len(LocalAfter(L)) = Len(Shown)
                       /\ LocalAfter(L)[n].id = id
                       /\ LocalAfter(L)[n].title = Trim(title)
                       /\ \A k \in 1..Len(Shown) : k # n => LocalAfter(L)[k] = Shown[k]
                       /\ StoredListsUnchanged
                       /\ \E i \in Slots :
                             /\ ops[i] = IdleOp
                             /\ ops'[i].kind = "update"
                             /\ ops'[i].pc = "list:insert"
                             /\ ops'[i].id = id
                             /\ ops'[i].title = Trim(title)
          /\ \A i \in Slots :
                ops[i].kind = "update" /\ ops[i].id.prefix # "" /\ InsertSettled(i, TRUE) =>
                   LET L == ops[i].list
                   IN  /\ Len(StoredAfter(L)) = Len(StoredRows(L)) + 1
                       /\ \A k \in 1..Len(StoredRows(L)) : StoredAfter(L)[k] = StoredRows(L)[k]
                       /\ StoredAfter(L)[Len(StoredAfter(L))].title = ops[i].title
                       /\ LocalAfter(L) = Local(L)]_vars

\* An update of a seed item (not a store id) has inserted a row with the new
\* title beside the stored row, the local item shows the new title, and the
\* handler is about to refresh.
C15_Witness ==
    \E i \in Slots :
        /\ ops[i].kind = "update"
        /\ ops[i].id.prefix # ""
        /\ ops[i].pc = "list:refresh"
        /\ Len(StoredRows(ops[i].list)) = 2
        /\ StoredRows(ops[i].list)[1] = StoredList[1]
        /\ StoredRows(ops[i].list)[2].title = "run"
        /\ \E n \in 1..Len(Local(ops[i].list)) :
              Local(ops[i].list)[n].id = ops[i].id /\ Local(ops[i].list)[n].title = "run"

\* The delete the user invokes on the item id of the shown list.
DeleteInvoked(id) == confirmDelete(id) \/ onDeleteWish(id)

WriteCalls ==
    {"list:insert", "list:insertUnscoped", "list:update", "list:updateUnscoped",
     "list:delete", "list:deleteUnscoped"}

ChangeShown(i, items) ==
    CASE ops[i].kind = "delete" -> ~HasId(items, ops[i].id)
      [] ops[i].kind = "toggle" ->
            \E n \in 1..Len(items) :
               items[n].id = ops[i].id /\ items[n].completed = ops[i].completed
      [] OTHER ->
            \E n \in 1..Len(items) : items[n].id = ops[i].id /\ items[n].title = ops[i].title

\* C17 (as stated): when the store write of an update, a delete or a toggle
\* of a stored item has failed, the change the handler made to the local list
\* is still in that list when the handler has finished.
C17_FailedWriteKeepsOptimisticChange ==
    [][\A i \in Slots :
          /\ ops[i].kind \in {"update", "delete", "toggle"}
          /\ ops[i].writeFailed
          /\ HasId(StoredRows(ops[i].list), ops[i].id)
          /\ ops'[i] = IdleOp
          => ChangeShown(i, LocalAfter(ops[i].list))]_vars

(***************************************************************************)
(* Loading: the page has loaded before and shows what the store holds, but *)
(* for one piece of its state, which is out of date; loadLatest runs for   *)
(* jiiji, and the user may switch.  The store does not change meanwhile.   *)
(***************************************************************************)
LoadGoals ==
    {[start_date |-> 1, end_date |-> 4, target_weight |-> 69],
     [start_date |-> 5, end_date |-> 15, target_weight |-> 68],
     [start_date |-> 8, end_date |-> 12, target_weight |-> 67],
     [start_date |-> 20, end_date |-> 30, target_weight |-> 66]}

Pieces ==
    {"points", "quests", "rewards", "wishes", "final", "period", "weights",
     "questHistory", "rewardHistory"}

\* The out-of-date values.
ShownGoal == [start_date |-> 2, end_date |-> 3, target_weight |-> 70]
ShownSeries == <<Sample(9, 70)>>
ShownQuestHistory == padTo20(<<QuestItem(-5, 10)>>, QuestDummies(1))
ShownRewardHistory == padTo20(<<RewardItem(-5, 100)>>, RewardDummies(1))

StoredProfile == [NewProfile EXCEPT !.points = 30, !.final_goal_weight = 65]
StoredWeights == {[recorded_at |-> 10, weight |-> 69]}

\* The goal a load shows for a set of stored goals.
LoadedGoal(rows) ==
    LET active == {r \in rows : r.start_date <= today /\ today <= r.end_date}
    IN  IF active # {} THEN CHOOSE r \in active : \A q \in active : r.end_date <= q.end_date
        ELSE IF rows # {} THEN CHOOSE r \in rows : \A q \in rows : r.end_date >= q.end_date
        ELSE NoGoal

InitLoad ==
    /\ now = 0
    /\ today = 10
    /\ activeUser = "jiiji"
    /\ profiles = [u \in Users |-> StoredProfile]
    /\ weights = [u \in Users |-> StoredWeights]
    /\ quest_history = [u \in Users |-> <<[created_at |-> -1, points |-> 20]>>]
    /\ reward_history = [u \in Users |-> <<[created_at |-> -1, cost |-> 50]>>]
    /\ userColumn = FALSE
    /\ quests = <<Row(Uuid(0), "walk", 50, FALSE, NoUser), Row(Uuid(1), "swim", 80, FALSE, NoUser)>>
    /\ rewards = <<Row(Uuid(2), "cake", 100, FALSE, NoUser)>>
    /\ wishesTable = <<Row(Uuid(3), "trip", 0, TRUE, NoUser)>>
    /\ \E G \in SUBSET LoadGoals :
          period_goals = [u \in Users |-> IF u = "jiiji" THEN G ELSE LoadGoals \ G]
    /\ \E stale \in Pieces :
          /\ progressByUser =
                [u \in Users |-> [points |-> IF stale = "points" THEN 40 ELSE 30]]
          /\ questDefinitions =
                IF stale = "quests" THEN initialQuestDefinitions ELSE ItemsOfRows(quests)
          /\ rewardDefinitions =
                IF stale = "rewards" THEN initialRewardDefinitions ELSE ItemsOfRows(rewards)
          /\ wishes = IF stale = "wishes" THEN initialWishes ELSE ItemsOfRows(wishesTable)
          /\ finalGoalWeightByUser =
                [u \in Users |-> IF stale = "final" THEN 64 ELSE 65]
          /\ periodGoalByUser =
                [u \in Users |->
                   IF stale = "period" THEN ShownGoal ELSE LoadedGoal(period_goals[u])]
          /\ weightHistoryByUser =
                [u \in Users |->
                   IF stale = "weights" THEN ShownSeries ELSE <<Sample(10, 69)>>]
          /\ questHistoryByUser =
                [u \in Users |->
                   IF stale = "questHistory" THEN ShownQuestHistory
                   ELSE padTo20(<<QuestItem(-1, 20)>>, QuestDummies(1))]
          /\ rewardHistoryByUser =
                [u \in Users |->
                   IF stale = "rewardHistory" THEN ShownRewardHistory
                   ELSE padTo20(<<RewardItem(-1, 50)>>, RewardDummies(1))]
    /\ completedQuestIdsByUser = [u \in Users |-> {}]
    /\ displayMode = "chart"
    /\ calendarWeights = <<>>
    /\ calendarReqIdRef = 0
    /\ calendarLoading = FALSE
    /\ activeTab = "home"
    /\ isEditorOpen = FALSE
    /\ isSaving = FALSE
    /\ isGoalModalOpen = FALSE
    /\ actions = 0
    /\ ledger = [u \in Users |-> NewLedger]
    /\ Mounted
    /\ call = NoCall
    /\ ret = Pending

\* The user switches once the page has finished loading.
NextLoad ==
    \/ \E user \in Users : NothingInFlight /\ setActiveUser(user)
    \/ \E i \in Slots, res \in ScopedResults : RefreshScoped(i, res)
    \/ \E i \in Slots, ok \in BOOLEAN :
          \/ RefreshUpsert(i, ok)
          \/ RefreshSelect(i, ok)
          \/ RefreshUnscoped(i, ok)
          \/ LoadFinalGoal(i, ok)
          \/ LoadActiveGoal(i, ok)
          \/ LoadLatestGoal(i, ok)
          \/ LoadWeights(i, ok)
          \/ LoadQuestHistory(i, ok)
          \/ LoadRewardHistory(i, ok)

SpecLoad == InitLoad /\ [][NextLoad]_vars

\* The stored goals of user u that contain today.
ContainingToday(u) == {r \in period_goals[u] : r.start_date <= today /\ today <= r.end_date}

\* C12: when the goal reads of a load (on mount or after a user switch)
\* succeed, the period goal shown for the user is the stored goal that
\* contains today and ends soonest; when no stored goal contains today it is
\* the stored goal that ends latest; it is no goal only when the user has no
\* stored goal.
C12_LoadShowsGoalBySelectionRule ==
    [][\A i \in Slots :
          LET u == ops[i].user
              shown == periodGoalByUser'[u]
          IN  /\ LoadActiveGoal(i, TRUE) /\ ContainingToday(u) # {} =>
                    /\ shown \in ContainingToday(u)
                    /\ \A q \in ContainingToday(u) : shown.end_date <= q.end_date
                    /\ ops'[i].pc # "goal:latest"
              /\ LoadActiveGoal(i, TRUE) /\ ContainingToday(u) = {} =>
                    ops'[i].pc = "goal:latest"
              /\ LoadLatestGoal(i, TRUE) =>
                    /\ ContainingToday(u) = {}
                    /\ period_goals[u] = {} => shown = NoGoal
                    /\ period_goals[u] # {} =>
                          /\ shown \in period_goals[u]
                          /\ \A q \in period_goals[u] : shown.end_date >= q.end_date]_vars

\* A load has read the goals of a user with two stored goals containing
\* today: it shows the one that ends first, while the other user still shows
\* the out-of-date goal.
C12_Witness ==
    \E i \in Slots, u \in Users :
        /\ ops[i].kind = "load"
        /\ ops[i].user = u
        /\ ops[i].pc = "weights:load"
        /\ Cardinality(ContainingToday(u)) = 2
        /\ periodGoalByUser[u] = [start_date |-> 8, end_date |-> 12, target_weight |-> 67]
        /\ \E v \in Users : v # u /\ periodGoalByUser[v] = ShownGoal

\* A read of a refresh or of a load that fails: the select of the points
\* balances, of a shared list (scoped, with any error, or unscoped), of the
\* final goal, of the period goal (either query) or of the weight series.
FailedRead(i) ==
    \/ RefreshSelect(i, FALSE)
    \/ \E res \in ScopedResults \ {"ok"} : RefreshScoped(i, res)
    \/ RefreshUnscoped(i, FALSE)
    \/ LoadFinalGoal(i, FALSE)
    \/ LoadActiveGoal(i, FALSE)
    \/ LoadLatestGoal(i, FALSE)
    \/ LoadWeights(i, FALSE)

\* C18: a read of a refresh or of a load that fails (points balances, shared
\* lists, final goal, period goal, weight series) leaves every piece of the
\* page's state as it was: nothing is reset to empty or to null, and a failed
\* first period-goal query is not followed by the second.
C18_FailedReadKeepsLocalState ==
    [][\A i \in Slots :
          FailedRead(i) =>
             /\ UNCHANGED <<localVars, listVars>>
             /\ ops[i].pc = "goal:active" => ops'[i].pc = "weights:load"]_vars

\* A load is past its read of the weight series, which failed: the page still
\* shows the out-of-date series, not the stored one and not an empty one.
C18_Witness ==
    \E i \in Slots :
        /\ ops[i].kind = "load"
        /\ ops[i].pc = "quest_history:load"
        /\ weights[ops[i].user] = StoredWeights
        /\ weightHistoryByUser[ops[i].user] = ShownSeries

IsReal(entry) == ~entry.isDummy

\* The real (not placeholder) entries of a displayed history.
RealEntries(history) == SelectSeq(history, IsReal)

\* C19 (as stated): when the read of quest_history or of reward_history fails
\* during a load, the real entries displayed for the user before the read are
\* the real entries displayed after it.
C19_FailedHistoryReadKeepsEntries ==
    [][\A i \in Slots :
          /\ LoadQuestHistory(i, FALSE) =>
                RealEntries(questHistoryByUser'[ops[i].user])
                   = RealEntries(questHistoryByUser[ops[i].user])
          /\ LoadRewardHistory(i, FALSE) =>
                RealEntries(rewardHistoryByUser'[ops[i].user])
                   = RealEntries(rewardHistoryByUser[ops[i].user])]_vars

\* The last step of a save: the read of the saved range when it finds the
\* row, else the read of the goal that contains today.
SaveSettles(i, ok) == (SaveReadExact(i, ok) \/ SaveReadActive(i, ok)) /\ ops'[i] = IdleOp

\* C11 (as stated): when a save has settled, the period goal displayed for
\* its user is the goal just saved if the save carried one, and otherwise the
\* stored goal that contains today and ends soonest or, when none contains
\* today, the stored goal that ends latest.
C11_GoalRederivedAfterSave ==
    [][\A i \in Slots, ok \in BOOLEAN :
          SaveSettles(i, ok) =>
             periodGoalByUser'[ops[i].user] =
                IF ops[i].period # NoGoal THEN ops[i].period
                ELSE LoadedGoal(period_goals[ops[i].user])]_vars

(***************************************************************************)
(* The goal form: the user opens it and submits its fields, valid or not.  *)
(***************************************************************************)
GoalNumbers == {"", "x", "30"}
GoalRanges == {<<NoIso, NoIso>>, <<12, 11>>, <<8, 20>>}

NextGoalForm ==
    \/ openGoalModal
    \/ \E finalInput \in GoalNumbers, range \in GoalRanges, pwInput \in GoalNumbers :
          submitGoals(finalInput, range[1], range[2], pwInput)
    \/ \E i \in Slots, ok \in BOOLEAN :
          \/ SaveEnsure(i, ok)
          \/ SaveFinal(i, ok)
          \/ SavePeriod(i, ok)
          \/ SaveReadFinal(i, ok)
          \/ SaveReadExact(i, ok)
          \/ SaveReadActive(i, ok)

SpecGoalForm == InitGoals /\ [][NextGoalForm]_vars

\* A goal form that is locally invalid: a number that is empty or not a
\* finite number, or a range whose start is after its end.
InvalidGoalForm(finalInput, ps, pe, pwInput) ==
    \/ ~IsFinite(NumberOf(finalInput)) \/ finalInput = ""
    \/ ~IsFinite(NumberOf(pwInput)) \/ pwInput = ""
    \/ ps # NoIso /\ pe # NoIso /\ ps > pe

\* C20 (as stated, for the goal form): submitting a goal form that is locally
\* invalid issues no store call, changes nothing the page shows, and leaves
\* the form open.
C20_InvalidGoalFormRejected ==
    [][\A finalInput \in GoalNumbers, range \in GoalRanges, pwInput \in GoalNumbers :
          /\ submitGoals(finalInput, range[1], range[2], pwInput)
          /\ InvalidGoalForm(finalInput, range[1], range[2], pwInput)
          => UNCHANGED <<ops, localVars, storeVars, isGoalModalOpen>>]_vars

Ordered(goal) == goal = NoGoal \/ goal.start_date <= goal.end_date

\* C21 (as stated): in every state reached by submitting goal forms, every
\* period goal the page holds for a user, every period goal a running save
\* sends to the store, and every stored period goal starts no later than it
\* ends.
C21_PeriodGoalsOrdered ==
    /\ \A u \in Users : Ordered(periodGoalByUser[u])
    /\ \A i \in Slots : ops[i].kind = "save" => Ordered(ops[i].period)
    /\ \A u \in Users : \A r \in period_goals[u] : Ordered(r)

MonthFetches == {i \in Slots : ops[i].kind = "monthFetch"}

\* C22: every month fetch takes the next request number, above those of all
\* fetches issued before it; a response changes the displayed month weights
\* and clears the loading flag only when it belongs to the latest fetch, so
\* the response of a superseded fetch changes neither; and nothing else
\* clears the flag, which is set exactly while the latest fetch is running.
C22_OnlyLatestMonthFetchApplies ==
    /\ [](/\ \A i \in MonthFetches : ops[i].reqId <= calendarReqIdRef
          /\ \A i, j \in MonthFetches : i # j => ops[i].reqId # ops[j].reqId
          /\ calendarLoading <=> \E i \in MonthFetches : ops[i].reqId = calendarReqIdRef)
    /\ [][/\ calendarReqIdRef' \in {calendarReqIdRef, calendarReqIdRef + 1}
          /\ \A i \in Slots :
                ops[i].kind # "monthFetch" /\ ops'[i].kind = "monthFetch" =>
                   /\ ops'[i].reqId = calendarReqIdRef + 1
                   /\ calendarReqIdRef' = calendarReqIdRef + 1
                   /\ calendarLoading'
          /\ \A i \in Slots, ok \in BOOLEAN :
                MonthFetchReturn(i, ok) /\ ops[i].reqId < calendarReqIdRef =>
                   UNCHANGED <<calendarWeights, calendarLoading>>
          /\ calendarLoading /\ ~calendarLoading' =>
                \E i \in Slots, ok \in BOOLEAN :
                   MonthFetchReturn(i, ok) /\ ops[i].reqId = calendarReqIdRef]_vars

\* One weight was recorded with the calendar shown: its write failed, its
\* re-read of the series succeeded and started the latest fetch, which is
\* still running while the fetch started with the entry has returned.  The
\* calendar still shows the entered sample, which is neither stored nor in
\* the series: the earlier fetch's response arrived superseded and was
\* discarded (applied, it would have replaced the sample).
C22_Witness ==
    /\ actions = 1
    /\ calendarLoading
    /\ Cardinality(MonthFetches) = 1
    /\ \A i \in Slots : ops[i].kind \in {"idle", "monthFetch"}
    /\ \E n \in 1..Len(calendarWeights) :
          /\ \A r \in weights[activeUser] :
                r.recorded_at # calendarWeights[n].isoDate
                   \/ r.weight # calendarWeights[n].weight
          /\ \A k \in 1..Len(weightHistoryByUser[activeUser]) :
                weightHistoryByUser[activeUser][k].isoDate # calendarWeights[n].isoDate
                   \/ weightHistoryByUser[activeUser][k].weight # calendarWeights[n].weight

(***************************************************************************)
(* Switching: the page is loading for jiiji when the user switches to the  *)
(* other user or to another tab, so that responses of the earlier load     *)
(* arrive in the new context. Each user made one of the two stored quests; *)
(* on a table with the column "user" a scoped select shows only that one.  *)
(***************************************************************************)
Owner(user) == IF userColumn THEN user ELSE NoUser

\* What a successful refresh of the rows shows to the user.
Visible(rows, user) ==
    ItemsOfRows(IF userColumn THEN RowsOfUser(rows, user) ELSE rows)

Tabs == {"home", "quest", "reward", "dream"}

InitSwitch ==
    /\ now = 0
    /\ today = 10
    /\ activeUser = "jiiji"
    /\ profiles = [u \in Users |-> StoredProfile]
    /\ weights = [u \in Users |-> StoredWeights]
    /\ quest_history = [u \in Users |-> <<>>]
    /\ reward_history = [u \in Users |-> <<>>]
    /\ period_goals = [u \in Users |-> {}]
    /\ userColumn \in BOOLEAN
    /\ quests = <<Row(Uuid(0), "walk", 50, FALSE, Owner("jiiji")),
                  Row(Uuid(1), "swim", 80, FALSE, Owner("baaba"))>>
    /\ rewards = <<Row(Uuid(2), "cake", 100, FALSE, Owner("jiiji"))>>
    /\ wishesTable = <<>>
    /\ \E shown \in {30, 40} : progressByUser = [u \in Users |-> [points |-> shown]]
    /\ questDefinitions = Visible(quests, activeUser)
    /\ rewardDefinitions = Visible(rewards, activeUser)
    /\ wishes = <<>>
    /\ finalGoalWeightByUser = [u \in Users |-> 65]
    /\ periodGoalByUser = [u \in Users |-> NoGoal]
    /\ weightHistoryByUser = [u \in Users |-> <<Sample(10, 69)>>]
    /\ questHistoryByUser = [u \in Users |-> padTo20(<<>>, QuestDummies(0))]
    /\ rewardHistoryByUser = [u \in Users |-> padTo20(<<>>, RewardDummies(0))]
    /\ completedQuestIdsByUser = [u \in Users |-> {}]
    /\ displayMode = "chart"
    /\ calendarWeights = <<>>
    /\ calendarReqIdRef = 0
    /\ calendarLoading = FALSE
    /\ activeTab = "home"
    /\ isEditorOpen = FALSE
    /\ isSaving = FALSE
    /\ isGoalModalOpen = FALSE
    /\ actions = 0
    /\ ledger = [u \in Users |-> NewLedger]
    /\ Mounted
    /\ call = NoCall
    /\ ret = Pending

NextSwitch ==
    \/ \E user \in Users : setActiveUser(user)
    \/ \E tab \in Tabs : handleTabChange(tab)
    \/ \E i \in Slots, res \in ScopedResults : RefreshScoped(i, res)
    \/ \E i \in Slots, ok \in BOOLEAN :
          \/ RefreshUpsert(i, ok)
          \/ RefreshSelect(i, ok)
          \/ RefreshUnscoped(i, ok)
          \/ LoadFinalGoal(i, ok)
          \/ LoadActiveGoal(i, ok)
          \/ LoadLatestGoal(i, ok)
          \/ LoadWeights(i, ok)
          \/ LoadQuestHistory(i, ok)
          \/ LoadRewardHistory(i, ok)

SpecSwitch == InitSwitch /\ [][NextSwitch]_vars

\* A step of a handler that was started for another user than the one shown.
LateResponse(i) ==
    /\ ops[i].kind \in {"load", "tab"}
    /\ ops[i].user # activeUser
    /\ ops'[i] # ops[i]
    /\ activeUser' = activeUser

\* C23: a response that arrives for a fetch issued for the previous user is
\* discarded: it changes neither the lists nor the balances on display, nor
\* the goals, series and histories of the user now shown.
C23_LateResponseDiscarded ==
    [][\A i \in Slots :
          LateResponse(i) =>
             /\ UNCHANGED <<questDefinitions, rewardDefinitions, wishes, progressByUser>>
             /\ UNCHANGED <<finalGoalWeightByUser[activeUser], periodGoalByUser[activeUser],
                            weightHistoryByUser[activeUser], questHistoryByUser[activeUser],
                            rewardHistoryByUser[activeUser]>>]_vars
(***************************************************************************)
(* Balances: jiiji has no profile row yet and is shown 0 points; baaba's   *)
(* row holds 30 points and a final goal while the page still shows 50 for  *)
(* baaba. jiiji records weights, which ensures the row, adds the bonus and *)
(* refreshes the balances.                                                 *)
(***************************************************************************)
InitRefresh ==
    /\ now = 0
    /\ today = 10
    /\ activeUser = "jiiji"
    /\ profiles = [u \in Users |-> IF u = "jiiji" THEN NoProfile ELSE StoredProfile]
    /\ progressByUser = [u \in Users |-> [points |-> IF u = "jiiji" THEN 0 ELSE 50]]
    /\ weightHistoryByUser = [u \in Users |-> <<>>]
    /\ completedQuestIdsByUser = [u \in Users |-> {}]
    /\ questHistoryByUser = [u \in Users |-> padTo20(<<>>, QuestDummies(0))]
    /\ rewardHistoryByUser = [u \in Users |-> padTo20(<<>>, RewardDummies(0))]
    /\ finalGoalWeightByUser = [u \in Users |-> Null]
    /\ periodGoalByUser = [u \in Users |-> NoGoal]
    /\ displayMode = "chart"
    /\ calendarWeights = <<>>
    /\ calendarReqIdRef = 0
    /\ calendarLoading = FALSE
    /\ ops = [i \in Slots |-> IdleOp]
    /\ actions = 0
    /\ ledger = [u \in Users |-> NewLedger]
    /\ weights = [u \in Users |-> {}]
    /\ quest_history = [u \in Users |-> <<>>]
    /\ reward_history = [u \in Users |-> <<>>]
    /\ period_goals = [u \in Users |-> {}]
    /\ ViewsConstructed
    /\ EmptyLists
    /\ call = NoCall
    /\ ret = Pending

NextRefresh ==
    \/ handleWeightSubmit(70, today)
    \/ \E i \in Slots, ok \in BOOLEAN :
          \/ WeightsSelect(i, ok)
          \/ WeightsWrite(i, ok)
          \/ WeightsRefetch(i, ok)
          \/ ApplyDeltaUpsert(i, ok)
          \/ ApplyDeltaSelect(i, ok)
          \/ ApplyDeltaUpdate(i, ok)
          \/ RefreshUpsert(i, ok)
          \/ RefreshSelect(i, ok)

SpecRefresh == InitRefresh /\ [][NextRefresh]_vars

\* C24: a points refresh whose read succeeds replaces the balance shown for
\* each user by the balance of the user's row, whatever was shown before;
\* a user without a row keeps the balance shown.
C24_RefreshReplacesBalances ==
    [][\A i \in Slots :
          RefreshSelect(i, TRUE) =>
             \A u \in Users :
                progressByUser'[u].points =
                   IF profiles[u].exists THEN profiles[u].points
                   ELSE progressByUser[u].points]_vars

\* A refresh has just lowered baaba's balance to the stored one while jiiji,
\* who has no row, keeps the balance shown.
C24_Witness ==
    /\ ~profiles["jiiji"].exists
    /\ profiles["baaba"].exists
    /\ progressByUser["baaba"].points = profiles["baaba"].points
    /\ progressByUser["baaba"].points < 50
    /\ progressByUser["jiiji"].points > 0
    /\ \E i \in Slots : ops[i].kind = "record" /\ ops[i].pc = AfterRefresh(i)
\* A step in which the user completes a quest, redeems a reward or records
\* a weight: it starts the handler in slot i.
Started(i) ==
    /\ ops[i].kind = "idle"
    /\ ops'[i].kind \in {"quest", "redeem", "record"}

\* C25: the balance shown for each user is never negative, and the
\* optimistic update of a quest completion, a redemption or a weight record
\* leaves the user the balance max(0, shown + delta), the store's rule.
C25_ShownBalanceNeverNegative ==
    /\ [](\A u \in Users : progressByUser[u].points >= 0)
    /\ [][\A i \in Slots :
             Started(i) =>
                LET u == ops'[i].user
                IN  /\ progressByUser'[u].points =
                          NextPoints(progressByUser[u].points, ops'[i].delta)
                    /\ \A v \in Users \ {u} : progressByUser'[v] = progressByUser[v]]_vars

\* A quest was completed and its points redeemed at once: the balance shown
\* is back at 0 while both handlers are still writing.
C25_Witness ==
    /\ progressByUser[activeUser].points = 0
    /\ \E i, j \in Slots : ops[i].kind = "quest" /\ ops[j].kind = "redeem"
\* A successful row-ensure step of handler i, and the users it names.
Ensured(i) ==
    IF RefreshUpsert(i, TRUE) THEN Users
    ELSE IF ApplyDeltaUpsert(i, TRUE) \/ SaveEnsure(i, TRUE) THEN {ops[i].user}
    ELSE {}

\* C26: the row-ensure step creates the row of each user it names when the
\* row is absent, leaves an existing row as it is (points and final goal),
\* touches no other row, and a second ensure would change nothing.
C26_EnsureCreatesOrKeeps ==
    [][\A i \in Slots :
          /\ \A u \in Ensured(i) :
                /\ profiles'[u].exists
                /\ profiles[u].exists => profiles'[u] = profiles[u]
                /\ ~profiles[u].exists => profiles'[u] = NewProfile
                /\ EnsureProfile(profiles', u) = profiles'
          /\ Ensured(i) # {} => \A u \in Users \ Ensured(i) : profiles'[u] = profiles[u]]_vars

\* The balances are about to be read after the ensure steps of a weight
\* record: jiiji's row has been created with the defaults and baaba's row
\* still holds its points and final goal.
C26_Witness ==
    /\ profiles["jiiji"] = NewProfile
    /\ profiles["baaba"] = StoredProfile
    /\ \E i \in Slots : ops[i].kind = "record" /\ ops[i].pc = "refresh:select"
(***************************************************************************)
(* Frame: both users have a stored weight, goal, histories and balance,    *)
(* all of them on display. The user shown records a weight, completes a    *)
(* quest, redeems a reward or saves goals, and may switch to the other     *)
(* user at any time, which starts that user's load.                        *)
(***************************************************************************)
FrameGoal == [start_date |-> 5, end_date |-> 15, target_weight |-> 68]
PastGoal == [start_date |-> 1, end_date |-> 4, target_weight |-> 69]
SavedGoal == [start_date |-> 8, end_date |-> 20, target_weight |-> 67]

InitFrame ==
    /\ now = 0
    /\ today = 10
    /\ activeUser = "jiiji"
    /\ profiles = [u \in Users |-> StoredProfile]
    /\ weights = [u \in Users |-> StoredWeights]
    /\ quest_history = [u \in Users |-> <<[created_at |-> -1, points |-> 20]>>]
    /\ reward_history = [u \in Users |-> <<[created_at |-> -1, cost |-> 50]>>]
    /\ period_goals = [u \in Users |-> IF u = "jiiji" THEN {FrameGoal} ELSE {PastGoal}]
    /\ EmptyLists
    /\ ViewsConstructed
    /\ progressByUser = [u \in Users |-> [points |-> 30]]
    /\ finalGoalWeightByUser = [u \in Users |-> 65]
    /\ periodGoalByUser = [u \in Users |-> LoadedGoal(period_goals[u])]
    /\ weightHistoryByUser = [u \in Users |-> <<Sample(10, 69)>>]
    /\ questHistoryByUser =
          [u \in Users |-> padTo20(<<QuestItem(-1, 20)>>, QuestDummies(1))]
    /\ rewardHistoryByUser =
          [u \in Users |-> padTo20(<<RewardItem(-1, 50)>>, RewardDummies(1))]
    /\ completedQuestIdsByUser = [u \in Users |-> {}]
    /\ displayMode = "chart"
    /\ calendarWeights = <<>>
    /\ calendarReqIdRef = 0
    /\ calendarLoading = FALSE
    /\ NothingInFlight
    /\ actions = 0
    /\ ledger = [u \in Users |-> NewLedger]
    /\ call = NoCall
    /\ ret = Pending

NextFrame ==
    \/ handleWeightSubmit(70, today)
    \/ \E questId \in QuestIds : handleCompleteQuest(questId)
    \/ \E rewardId \in RewardIds : handleRedeemReward(rewardId)
    \/ saveGoalsForActiveUser(64, SavedGoal)
    \/ \E user \in Users : setActiveUser(user)
    \/ \E i \in Slots, res \in ScopedResults : RefreshScoped(i, res)
    \/ \E i \in Slots, ok \in BOOLEAN :
          \/ WeightsSelect(i, ok)
          \/ WeightsWrite(i, ok)
          \/ WeightsRefetch(i, ok)
          \/ QuestHistoryInsert(i, ok)
          \/ RewardHistoryInsert(i, ok)
          \/ ApplyDeltaUpsert(i, ok)
          \/ ApplyDeltaSelect(i, ok)
          \/ ApplyDeltaUpdate(i, ok)
          \/ SaveEnsure(i, ok)
          \/ SaveFinal(i, ok)
          \/ SavePeriod(i, ok)
          \/ SaveReadFinal(i, ok)
          \/ SaveReadExact(i, ok)
          \/ SaveReadActive(i, ok)
          \/ RefreshUpsert(i, ok)
          \/ RefreshSelect(i, ok)
          \/ RefreshUnscoped(i, ok)
          \/ LoadFinalGoal(i, ok)
          \/ LoadActiveGoal(i, ok)
          \/ LoadLatestGoal(i, ok)
          \/ LoadWeights(i, ok)
          \/ LoadQuestHistory(i, ok)
          \/ LoadRewardHistory(i, ok)

SpecFrame == InitFrame /\ [][NextFrame]_vars

UserHandlers == {"record", "quest", "redeem", "save"}

\* A step of one of the four handlers in slot i: its start or one of its
\* store calls returning.
HandlerStep(i) ==
    \/ ops[i].kind = "idle" /\ ops'[i].kind \in UserHandlers
    \/ ops[i].kind \in UserHandlers /\ ops'[i] # ops[i]

\* The user the handler in slot i was started for.
Actor(i) == IF ops[i].kind = "idle" THEN ops'[i].user ELSE ops[i].user

\* What the page and the store hold for user v alone: series, goals,
\* histories and stored balance.
PerUserData(v) ==
    <<weightHistoryByUser[v], weights[v], finalGoalWeightByUser[v], periodGoalByUser[v],
      period_goals[v], profiles[v].final_goal_weight, questHistoryByUser[v],
      rewardHistoryByUser[v], completedQuestIdsByUser[v], quest_history[v],
      reward_history[v], profiles[v].points>>

\* C27: every step of a weight record, quest completion, redemption or
\* goal save started for user u leaves the other user's series, goals,
\* histories and stored balance as they are, whoever is shown at that time.
C27_OtherUserUntouched ==
    [][\A i \in Slots :
          HandlerStep(i) =>
             \A v \in Users \ {Actor(i)} : PerUserData(v)' = PerUserData(v)]_vars

\* baaba is shown while jiiji's weight record, started before the switch,
\* is about to re-read the series: its weight and bonus are stored for
\* jiiji, and baaba's stored weight and balance are as before.
C27_Witness ==
    /\ activeUser = "baaba"
    /\ \E i \in Slots :
          ops[i].kind = "record" /\ ops[i].user = "jiiji" /\ ops[i].pc = "weights:refetch"
    /\ weights["jiiji"] = {[recorded_at |-> 10, weight |-> 70]}
    /\ profiles["jiiji"].points = 40
    /\ weights["baaba"] = StoredWeights
    /\ profiles["baaba"].points = 30
\* C28: the lists are shared: a refresh whose read succeeds shows every
\* stored item of the list, whichever user it was started for and whether
\* or not the table has the column "user", so both users see the same list.
C28_RefreshShowsSharedList ==
    [][\A i \in Slots :
          RefreshScoped(i, "ok") \/ RefreshUnscoped(i, TRUE) =>
             LocalAfter(ops[i].list) = ItemsOfRows(StoredRows(ops[i].list))]_vars
(***************************************************************************)
(* Without a store client: getSupabaseClient() returns null (the two       *)
(* environment variables are not set), so every handler runs to its        *)
(* "if (!supabase) return" and no store call is made. The handlers below   *)
(* are the ones above cut at that line. The chart is shown throughout.     *)
(***************************************************************************)
NoStoreCall ==
    UNCHANGED <<storeVars, ops, now, today, ledger, quests, rewards, wishesTable,
                userColumn, viewVars, displayMode, calendarWeights, calendarReqIdRef,
                calendarLoading, pureVars>>

\* setActiveUser, and loadLatest without a client: the seed lists and, for
\* the user, the placeholder histories.
setActiveUserWithoutClient(user) ==
    /\ user # activeUser
    /\ actions < MaxActions
    /\ activeUser' = user
    /\ questDefinitions' = initialQuestDefinitions
    /\ rewardDefinitions' = initialRewardDefinitions
    /\ wishes' = initialWishes
    /\ questHistoryByUser' = [questHistoryByUser EXCEPT ![user] = QuestDummies(0)]
    /\ rewardHistoryByUser' = [rewardHistoryByUser EXCEPT ![user] = RewardDummies(0)]
    /\ actions' = actions + 1
    /\ UNCHANGED <<progressByUser, weightHistoryByUser, completedQuestIdsByUser,
                   finalGoalWeightByUser, periodGoalByUser>>
    /\ NoStoreCall

handleRecordWeightWithoutClient(weight, iso) ==
    LET userKey == activeUser
    IN  /\ actions < MaxActions
        /\ weightHistoryByUser' =
              [weightHistoryByUser EXCEPT ![userKey] = upsertWeightHistory(@, iso, weight)]
        /\ progressByUser' = [progressByUser EXCEPT ![userKey].points = @ + RecordBonus]
        /\ actions' = actions + 1
        /\ UNCHANGED <<activeUser, completedQuestIdsByUser, questHistoryByUser,
                       rewardHistoryByUser, finalGoalWeightByUser, periodGoalByUser,
                       questDefinitions, rewardDefinitions, wishes>>
        /\ NoStoreCall

handleCompleteQuestWithoutClient(questId) ==
    LET userKey == activeUser
        target == QuestPoints[questId]
    IN  /\ actions < MaxActions
        /\ questId \notin completedQuestIdsByUser[userKey]
        /\ questHistoryByUser' =
              [questHistoryByUser EXCEPT
                 ![userKey] = Take(<<QuestItem(now, target)>> \o @, TargetCount)]
        /\ completedQuestIdsByUser' =
              [completedQuestIdsByUser EXCEPT ![userKey] = @ \cup {questId}]
        /\ progressByUser' = [progressByUser EXCEPT ![userKey].points = @ + target]
        /\ actions' = actions + 1
        /\ UNCHANGED <<activeUser, weightHistoryByUser, rewardHistoryByUser,
                       finalGoalWeightByUser, periodGoalByUser, questDefinitions,
                       rewardDefinitions, wishes>>
        /\ NoStoreCall

handleRedeemRewardWithoutClient(rewardId) ==
    LET userKey == activeUser
        cost == RewardCost[rewardId]
    IN  /\ actions < MaxActions
        /\ CanRedeem(progressByUser[userKey].points, cost)
        /\ rewardHistoryByUser' =
              [rewardHistoryByUser EXCEPT
                 ![userKey] = Take(<<RewardItem(now, cost)>> \o @, TargetCount)]
        /\ progressByUser' = [progressByUser EXCEPT ![userKey].points = @ - cost]
        /\ actions' = actions + 1
        /\ UNCHANGED <<activeUser, weightHistoryByUser, completedQuestIdsByUser,
                       questHistoryByUser, finalGoalWeightByUser, periodGoalByUser,
                       questDefinitions, rewardDefinitions, wishes>>
        /\ NoStoreCall

\* handleCreateQuest / handleCreateReward / handleCreateWish
handleCreateWithoutClient(L, title, amount) ==
    LET safeTitle == Trim(title)
        entry == Item(makeId(LocalPrefix(L), actions + 1), safeTitle, Max2(0, amount), FALSE)
    IN  /\ actions < MaxActions
        /\ SetLocal(L, IF safeTitle = "" THEN Local(L) ELSE <<entry>> \o Local(L))
        /\ actions' = IF safeTitle = "" THEN actions ELSE actions + 1
        /\ UNCHANGED <<activeUser, progressByUser, weightHistoryByUser,
                       completedQuestIdsByUser, questHistoryByUser, rewardHistoryByUser,
                       finalGoalWeightByUser, periodGoalByUser>>
        /\ NoStoreCall

\* saveGoalsForActiveUser returns at its first line.
saveGoalsWithoutClient(final, period) ==
    /\ actions < MaxActions
    /\ actions' = actions + 1
    /\ UNCHANGED <<activeUser, progressByUser, weightHistoryByUser,
                   completedQuestIdsByUser, questHistoryByUser, rewardHistoryByUser,
                   finalGoalWeightByUser, periodGoalByUser, questDefinitions,
                   rewardDefinitions, wishes>>
    /\ NoStoreCall

InitLocalOnly ==
    /\ now = 0
    /\ today = 10
    /\ activeUser = "jiiji"
    /\ progressByUser = [u \in Users |-> [points |-> 0]]
    /\ weightHistoryByUser = [u \in Users |-> <<>>]
    /\ completedQuestIdsByUser = [u \in Users |-> {}]
    /\ questHistoryByUser = [u \in Users |-> IF u = activeUser THEN QuestDummies(0) ELSE <<>>]
    /\ rewardHistoryByUser =
          [u \in Users |-> IF u = activeUser THEN RewardDummies(0) ELSE <<>>]
    /\ finalGoalWeightByUser = [u \in Users |-> Null]
    /\ periodGoalByUser = [u \in Users |-> NoGoal]
    /\ displayMode = "chart"
    /\ calendarWeights = <<>>
    /\ calendarReqIdRef = 0
    /\ calendarLoading = FALSE
    /\ NothingInFlight
    /\ actions = 0
    /\ ledger = [u \in Users |-> NewLedger]
    /\ EmptyStore
    /\ EmptyLists
    /\ ViewsConstructed
    /\ call = NoCall
    /\ ret = Pending

NextLocalOnly ==
    \/ \E user \in Users : setActiveUserWithoutClient(user)
    \/ \E weight \in {69, 70}, iso \in {9, 10} : handleRecordWeightWithoutClient(weight, iso)
    \/ \E questId \in QuestIds : handleCompleteQuestWithoutClient(questId)
    \/ \E rewardId \in RewardIds : handleRedeemRewardWithoutClient(rewardId)
    \/ \E L \in {"quests", "rewards", "wishes"}, title \in {" ", "run"}, amount \in {-5, 30} :
          handleCreateWithoutClient(L, title, amount)
    \/ saveGoalsWithoutClient(64, SavedGoal)

SpecLocalOnly == InitLocalOnly /\ [][NextLocalOnly]_vars

\* What the page shows.
Displayed ==
    <<activeUser, progressByUser, weightHistoryByUser, completedQuestIdsByUser,
      questHistoryByUser, rewardHistoryByUser, finalGoalWeightByUser, periodGoalByUser,
      questDefinitions, rewardDefinitions, wishes>>

\* C29: without a store client every user action with valid input takes
\* effect on what the page shows; in particular a goal save shows the
\* saved goals.
C29_EveryActionTakesEffectLocally ==
    [][/\ actions' # actions => Displayed' # Displayed
       /\ saveGoalsWithoutClient(64, SavedGoal) =>
             /\ finalGoalWeightByUser'[activeUser] = 64
             /\ periodGoalByUser'[activeUser] = SavedGoal]_vars
\* The stored rows of user u for the date.
RowsOn(u, iso) == {r \in weights[u] : r.recorded_at = iso}

RecordsSettled(u) == \A i \in Slots : ~(ops[i].kind = "record" /\ ops[i].user = u)

\* C31: every weight record adds the bonus once, on the page and in the
\* store: when a user's records have settled with every balance call
\* successful, both balances are the bonus times the number of records.
C31_BonusOncePerRecord ==
    \A u \in Users :
        RecordsSettled(u) =>
           /\ SelectPoints(profiles, u) = RecordBonus * ledger[u].steps
           /\ progressByUser[u].points = RecordBonus * ledger[u].steps
(***************************************************************************)
(* Order of calls: weight records and goal saves of the user shown, one of *)
(* each kind at a time, from the state in which both users have stored     *)
(* data.                                                                   *)
(***************************************************************************)
Running(kind) == \E i \in Slots : ops[i].kind = kind

NextOrder ==
    \/ ~Running("record") /\ handleWeightSubmit(70, today)
    \/ ~Running("save") /\ saveGoalsForActiveUser(64, SavedGoal)
    \/ ~Running("save") /\ saveGoalsForActiveUser(Undefined, PastGoal)
    \/ \E i \in Slots, ok \in BOOLEAN :
          \/ WeightsSelect(i, ok)
          \/ WeightsWrite(i, ok)
          \/ WeightsRefetch(i, ok)
          \/ ApplyDeltaUpsert(i, ok)
          \/ ApplyDeltaSelect(i, ok)
          \/ ApplyDeltaUpdate(i, ok)
          \/ RefreshUpsert(i, ok)
          \/ RefreshSelect(i, ok)
          \/ SaveEnsure(i, ok)
          \/ SaveFinal(i, ok)
          \/ SavePeriod(i, ok)
          \/ SaveReadFinal(i, ok)
          \/ SaveReadExact(i, ok)
          \/ SaveReadActive(i, ok)

SpecOrder == InitFrame /\ [][NextOrder]_vars

\* The call of handler o that must have returned before the call o waits
\* for is issued.
PrecedingCall(o) ==
    CASE o.pc = "save:final" -> {"save:ensure"}
      [] o.pc = "save:period" ->
            IF o.final # Undefined THEN {"save:final"} ELSE {"save:ensure"}
      [] o.pc = "save:readFinal" ->
            IF o.period # NoGoal THEN {"save:period"}
            ELSE IF o.final # Undefined THEN {"save:final"} ELSE {"save:ensure"}
      [] o.pc = "save:readExact" -> {"save:readFinal"}
      [] o.pc = "save:readActive" -> {"save:readFinal", "save:readExact"}
      [] o.pc = "weights:write" -> {"weights:select"}
      [] o.pc = "applyDelta:upsert" -> {"weights:write"}
      [] o.pc = "applyDelta:select" -> {"applyDelta:upsert"}
      [] o.pc = "applyDelta:update" -> {"applyDelta:select"}
      [] o.pc = "refresh:upsert" -> {"applyDelta:update"}
      [] o.pc = "refresh:select" -> {"refresh:upsert"}
      [] o.pc = "weights:refetch" -> {"refresh:select"}
      [] OTHER -> {}

\* C32: a goal save or weight record issues its calls one at a time, each
\* after the one before it has returned: the re-reads of the goals after
\* the upserts of the values saved, the re-reads of the balances and of the
\* series after the weight write and the balance update.
C32_ReadsIssuedAfterWrites ==
    [][\A i \in Slots :
          /\ ops[i].kind \in {"save", "record"}
          /\ ops'[i].kind = ops[i].kind
          /\ ops'[i].born = ops[i].born
          /\ ops'[i].pc # ops[i].pc
          => ops[i].pc \in PrecedingCall(ops'[i])]_vars

\* A goal save waits for the re-read of its period goal: both values it
\* saved are in the store.
C32_Witness ==
    \E i \in Slots :
       /\ ops[i].kind = "save" /\ ops[i].pc = "save:readExact"
       /\ ops[i].final = 64
       /\ profiles[ops[i].user].final_goal_weight = 64
       /\ ops[i].period \in period_goals[ops[i].user]
\* The balance after delta a and then delta b, applied from balance 0.
InOrder(a, b) == NextPoints(NextPoints(0, a), b)

\* C33: no delta is lost when applyDelta calls on one user's balance
\* interleave: after the second balance write, every store call having
\* succeeded, the stored balance is the result of applying the two deltas
\* one after the other in one of the two orders.
C33_NoDeltaLost ==
    [][\A u \in Users :
          /\ ledger[u].steps = 1
          /\ ledger'[u].steps = 2
          /\ ledger'[u].allOk
          => LET first == ledger[u].sum
                 second == ledger'[u].sum - ledger[u].sum
             IN  SelectPoints(profiles', u) \in {InOrder(first, second), InOrder(second, first)}]_vars

\* C34: an applyDelta whose balance read failed does not write a balance
\* computed from a substituted value: its last step leaves the user's
\* stored balance as it was.
C34_FailedReadLeavesBalance ==
    [][\A i \in Slots, ok \in BOOLEAN :
          (~ops[i].readOk /\ ApplyDeltaUpdate(i, ok))
             => SelectPoints(profiles', ops[i].user) = SelectPoints(profiles, ops[i].user)]_vars
\* calendarWeightByIso.get(iso): the weight the calendar shows for the day,
\* Null when it shows none.
CalendarEntry(iso) ==
    IF \E n \in 1..Len(calendarWeights) : calendarWeights[n].isoDate = iso
    THEN calendarWeights[CHOOSE n \in 1..Len(calendarWeights) :
                            calendarWeights[n].isoDate = iso].weight
    ELSE Null

\* C35: while the calendar is shown, a weight the user recorded for a day
\* of the month (the weights entered are 70 kg and more, the stored one is
\* less) stays the day's entry until the user acts again: no response of a
\* month fetch or step of a handler replaces or removes it.
C35_RecordedEntryStays ==
    [][\A iso \in RecordDates :
          /\ displayMode = "calendar"
          /\ InMonth(iso)
          /\ CalendarEntry(iso) >= 70
          /\ actions' = actions
          => CalendarEntry(iso)' = CalendarEntry(iso)]_vars
\* The step is a redemption by user u: some reward the balance shown
\* covers, one entry put first in the history shown, the balance shown
\* lowered by the cost, one handler started that will apply -cost to u's
\* stored balance, and no store call made yet.
Redeemed(u) ==
    /\ u = activeUser
    /\ \E rewardId \in RewardIds :
          LET cost == RewardCost[rewardId]
          IN  /\ progressByUser[u].points >= cost
              /\ rewardHistoryByUser'[u] =
                    Take(<<RewardItem(now, cost)>> \o rewardHistoryByUser[u], TargetCount)
              /\ progressByUser'[u].points = progressByUser[u].points - cost
              /\ \E i \in Slots :
                    /\ ops[i].kind = "idle"
                    /\ ops'[i].kind = "redeem" /\ ops'[i].user = u
                    /\ ops'[i].delta = -cost
                    /\ \A j \in Slots \ {i} : ops'[j] = ops[j]
    /\ UNCHANGED storeVars

\* C36: the reward history shown changes, a redemption handler starts and
\* the store's reward history grows only through a redemption the balance
\* shown covers, which puts one entry first, lowers the balance shown by
\* the cost and applies -cost to the acting user's stored balance: the
\* handler writes max(0, balance read - cost) for that user only.  A click
\* the balance does not cover changes nothing.
C36_RedeemOnlyWhenCovered ==
    [][\A u \in Users :
          /\ rewardHistoryByUser'[u] # rewardHistoryByUser[u] => Redeemed(u)
          /\ (\E i \in Slots : ops[i].kind # "redeem" /\ ops'[i].kind = "redeem"
                                   /\ ops'[i].user = u) => Redeemed(u)
          /\ reward_history'[u] # reward_history[u] =>
                \E i \in Slots : /\ ops[i].kind = "redeem" /\ ops[i].user = u
                                  /\ ops[i].pc = "reward_history:insert"
          /\ \A i \in Slots :
                (ops[i].kind = "redeem" /\ ops[i].user = u /\ ApplyDeltaUpdate(i, TRUE)) =>
                    /\ profiles'[u].exists =>
                          profiles'[u].points = Max2(0, ops[i].current - RewardCost["r1"])
                    /\ \A v \in Users \ {u} : profiles'[v] = profiles[v]]_vars

\* A redemption that used up the balance earned by a quest: its handler is
\* about to write the history row, and the balance shown no longer covers
\* the reward.
C36_Witness ==
    \E i \in Slots :
       /\ ops[i].kind = "redeem" /\ ops[i].pc = "reward_history:insert"
       /\ ~rewardHistoryByUser[ops[i].user][1].isDummy
       /\ progressByUser[ops[i].user].points < RewardCost["r1"]
\* The step is a completion by user u of a quest not yet in u's completed
\* set: the quest joins the set, one entry is put first in the history
\* shown, the balance shown grows by the quest's points, one handler starts
\* that will add them to u's stored balance, and no store call is made yet.
CompletedNow(u) ==
    /\ u = activeUser
    /\ \E questId \in QuestIds \ completedQuestIdsByUser[u] :
          LET target == QuestPoints[questId]
          IN  /\ completedQuestIdsByUser'[u] = completedQuestIdsByUser[u] \cup {questId}
              /\ questHistoryByUser'[u] =
                    Take(<<QuestItem(now, target)>> \o questHistoryByUser[u], TargetCount)
              /\ progressByUser'[u].points = progressByUser[u].points + target
              /\ \E i \in Slots :
                    /\ ops[i].kind = "idle"
                    /\ ops'[i].kind = "quest" /\ ops'[i].user = u
                    /\ ops'[i].delta = target
                    /\ \A j \in Slots \ {i} : ops'[j] = ops[j]
    /\ UNCHANGED storeVars

C38_BaselineNullIffNoValidSample ==
    (call.fn = "findBaselineWeight" /\ ~ret.pending) =>
        LET h == call.weightHistory
            a == call.startIso
            b == call.endIso
            V == {i \in 1..Len(h) : h[i].isoDate # NoIso /\ h[i].weight # NaN}
            rows == BaselineRows(h)
            earliest == {i \in V : \A j \in V : h[j].isoDate >= h[i].isoDate}
        IN  /\ ret.value = Null <=> V = {}
            /\ (V # {} /\ a <= b) =>
                   \/ BaselineExact(rows, a) # 0
                   \/ BaselineBefore(rows, a) # 0
                   \/ BaselineWithin(rows, a, b) # 0
                   \/ BaselineAfter(rows, a) # 0
            /\ (V # {} /\ a <= b /\ \A i \in V : h[i].isoDate > b) =>
                   ret.value \in {h[i].weight : i \in earliest}

\* Two samples after the period, the later one first in the series: the
\* baseline is the earlier one's weight.
C38_Witness ==
    /\ call.fn = "findBaselineWeight" /\ ~ret.pending
    /\ call.weightHistory = <<[isoDate |-> 20, weight |-> 68], [isoDate |-> 10, weight |-> 70]>>
    /\ call.startIso = 1 /\ call.endIso = 5
    /\ ret.value = 70
(***************************************************************************)
(* The editors of the list views: submit, delete, dismissal and tab        *)
(* changes.  The page starts on the quest tab with the stored quest shown, *)
(* or on the reward tab after the user confirmed the delete of that quest, *)
(* dismissed the confirmation and changed tab while the delete is still    *)
(* in flight.                                                              *)
(***************************************************************************)
\* onOpenChange of the editor dialog: if (isSaving) return; setIsEditorOpen(open)
onOpenChange(open) ==
    /\ activeTab \in {"quest", "reward", "dream"}
    /\ isEditorOpen' = IF isSaving THEN isEditorOpen ELSE open
    /\ UNCHANGED <<activeTab, isSaving, isGoalModalOpen, listVars, localVars, storeVars,
                   ops, now, today, actions, ledger, pureVars>>

\* The handler a view awaits rejects: the finally of submit or of the
\* delete button runs setIsSaving(false), and setIsEditorOpen(false) and
\* setDeleteTarget(null) are skipped.
Rejects(i) ==
    /\ ops[i].kind \in {"create", "update", "delete"}
    /\ ops' = Finish(i)
    /\ isSaving' = IF ops[i].editor THEN FALSE ELSE isSaving
    /\ UNCHANGED <<activeTab, isEditorOpen, isGoalModalOpen, listVars, localVars,
                   storeVars, now, today, actions, ledger, pureVars>>

\* The delete of the stored quest, started by a quest view that is no
\* longer mounted.
DeleteLeftRunning ==
    [ListOp("delete", "list:delete", "quests", Uuid(0), "", 0, FALSE) EXCEPT !.born = 0]

InitEditor ==
    /\ Constructed
    /\ EmptyStore
    /\ isEditorOpen = FALSE
    /\ isSaving = FALSE
    /\ isGoalModalOpen = FALSE
    /\ userColumn \in BOOLEAN
    /\ quests = StoredList
    /\ rewards = <<>>
    /\ wishesTable = <<>>
    /\ rewardDefinitions = initialRewardDefinitions
    /\ wishes = initialWishes
    /\ \/ /\ activeTab = "quest"
          /\ questDefinitions = ItemsOfRows(quests)
          /\ NothingInFlight
       \/ /\ activeTab = "reward"
          /\ questDefinitions = <<>>
          /\ ops = [i \in Slots |-> IF i = 1 THEN DeleteLeftRunning ELSE IdleOp]
    /\ call = NoCall
    /\ ret = Pending

NextEditor ==
    \/ openEditor
    \/ \E open \in BOOLEAN : onOpenChange(open)
    \/ \E title \in FormTitles, pointsInput \in FormPoints :
          \/ submit(NoId, title, pointsInput)
          \/ \E n \in 1..Len(Shown) : submit(Shown[n].id, title, pointsInput)
    \/ \E n \in 1..Len(Shown) : confirmDelete(Shown[n].id)
    \/ \E title \in FormTitles : onCreateWish(title)
    \/ \E n \in 1..Len(wishes), title \in FormTitles : onUpdateWish(wishes[n].id, title)
    \/ \E n \in 1..Len(wishes) : onDeleteWish(wishes[n].id)
    \/ \E tab \in {"quest", "reward", "dream"} : handleTabChange(tab)
    \/ \E i \in Slots : Rejects(i)
    \/ \E i \in Slots, res \in ScopedResults :
          \/ RefreshScoped(i, res)
          \/ InsertScoped(i, res)
          \/ UpdateScoped(i, res)
          \/ DeleteScoped(i, res)
    \/ \E i \in Slots, ok \in BOOLEAN :
          \/ RefreshUnscoped(i, ok)
          \/ InsertUnscoped(i, ok)
          \/ UpdateUnscoped(i, ok)
          \/ DeleteUnscoped(i, ok)

SpecEditor == InitEditor /\ [][NextEditor]_vars

\* The create, update and delete submissions of list L that are in flight.
Submissions(L) ==
    {i \in Slots : ops[i].kind \in {"create", "update", "delete"} /\ ops[i].list = L}

\* C39 (in flight): each list has at most one create, update or delete
\* submission in flight at a time.
C39_OneSubmissionInFlight == \A L \in Lists : Cardinality(Submissions(L)) <= 1

\* C39 (saving flag): while the saving flag is set a submit does nothing and
\* an open editor stays open unless the submission the view awaits resolves;
\* the flag is false once that submission has settled, resolved or
\* rejected; and a submission that settles closes the editor only when it
\* resolved.
C39_SavingFlagGuardsEditor ==
    [][/\ \A title \in FormTitles, pointsInput \in FormPoints :
             \A id \in {NoId} \cup {Shown[n].id : n \in 1..Len(Shown)} :
                (isSaving /\ EditorSubmit({"quest", "reward", "dream"}, id, title, pointsInput))
                   => UNCHANGED <<ops, listVars, storeVars, isSaving, isEditorOpen>>
       /\ \A i \in Slots :
             (ops[i].editor /\ ops'[i].kind = "idle") => ~isSaving'
       /\ (isSaving /\ isEditorOpen /\ ~isEditorOpen') =>
             \E i \in Slots : /\ ops[i].editor /\ ops[i].kind \in {"create", "update"}
                               /\ ops'[i].kind = "idle"
                               /\ ~Rejects(i)
       /\ \A i \in Slots : Rejects(i) => isEditorOpen' = isEditorOpen]_vars
====
